---- MODULE Spec2Model ----
(***************************************************************************)
(* Registration, session store and reaction engine of the forum backend    *)
(* (backend/handlers/auth.go, backend/sqlite/queries.go).                  *)
(*                                                                         *)
(* The store is SQLite reached through database/sql: every db.Exec and     *)
(* db.QueryRow is one atomic statement, but no handler opens a             *)
(* transaction, so a handler is a sequence of atomic statements that other *)
(* handlers (net/http runs one goroutine per request) may interleave with. *)
(* Two kinds of specification are given over the same operators:           *)
(*   - the ...Seq specifications run every handler to completion before    *)
(*     the next one starts (one request at a time);                        *)
(*   - the ...Conc specifications run two handler goroutines statement by  *)
(*     statement.                                                          *)
(***************************************************************************)
EXTENDS Integers, Sequences, FiniteSets, TLC

(***************************************************************************)
(* Bounds of the model.                                                    *)
(***************************************************************************)
\* post ids are 1..MaxPostID
MaxPostID == 1
\* comment ids are 1..MaxCommentID
MaxCommentID == 1
\* number of ToggleLike calls in a run of the sequential reaction spec
MaxCalls == 3
\* number of ToggleLike calls in a run of the concurrent reaction spec
MaxConcCalls == 3

\* number of session ids (uuid.New) handed out in a run
MaxSessions == 2
\* the clock runs over the hours 0..MaxTime
MaxTime == 2
\* number of avatar files a run may create under static/
MaxFiles == 1

UserIDs == {"u1", "u2"}
PostIDs == 1..MaxPostID
CommentIDs == 1..MaxCommentID
\* the two request-handling goroutines of the concurrent specifications
Procs == {"h1", "h2"}

\* A *int argument: {} is the nil pointer, {n} a pointer to n.  The same
\* encoding is used for the nullable columns post_id and comment_id.
PostArgs == {{}} \cup {{p} : p \in PostIDs}
CommentArgs == {{}} \cup {{c} : c \in CommentIDs}
\* reactionType strings a caller may pass ("Like" is not exactly "like")
ReactionArgs == {"like", "dislike", "Like"}

ErrInvalidType == "invalid reaction type"
ErrTarget == "must provide either postID or commentID, but not both"
\* any error of the store other than sql.ErrNoRows (locked, I/O, ...)
ErrDB == "sql: store error"
\* which statement of a call the store fails, if any
DBFaults == {"none", "query", "exec"}
\* which statements of a LoginUser call the store fails: the user lookup
\* (the call ends there), DeleteAllUserSessions, CreateSession, or both
LoginFaults == {"none", "lookup", "delete", "create", "both"}

\* login request bodies: the e-mail, username and password fields
EmailArgs == {"", "alice@forum.io", "carol@forum.io", "not-an-email"}
UsernameArgs == {"", "bob", "carol", "b@d name"}
PasswordArgs == {"", "Secret#1", "Secret#2"}
\* registration forms: the password field and the avatar part, given by
\* what http.DetectContentType makes of its first 512 bytes ("none": no
\* avatar part, "empty": a part of zero bytes)
RegPasswordArgs == {"", "Secret#1", "weak"}
AvatarArgs == {"none", "image/png", "text/plain", "empty"}
\* what fails during a RegisterUser call, if anything: os.Create of the
\* avatar file, io.Copy into it, utils.HashPassword, the INSERT
RegisterFaults == {"none", "create", "copy", "hash", "exec"}
\* a session_id cookie: {} is no cookie, {t} the cookie with value t
CookieArgs == {{}} \cup {{t} : t \in 1..MaxSessions}
\* the expiryHours the maintenance job passes to CleanupSessions
ExpiryArgs == {1, 2}
\* the offset of time.Local from UTC, in hours east, at the moment
\* CleanupSessions formats its cutoff: 0 in the alpine image, the host's own
\* zone (moving by an hour at a daylight-saving change) for a binary run
\* locally
ZoneOffsets == {-1, 0, 1}

VARIABLES
  users,       \* table users: set of rows
  sessions,    \* table sessions: set of rows [id, user_id, created_at]
  now,         \* the clock (time.Now), in hours
  nextSession, \* the next fresh session id uuid.New will return
  lg,          \* concurrent spec: user.ID held by the LoginUser call in flight
  httpResp,    \* concurrent spec: each goroutine's last response [status, cookie]
  lastAuth,    \* sequential spec: <<>> or <<record of the last auth request>>
  likes,     \* table likes: sequence of rows in insertion (rowid) order
  ncalls,    \* number of ToggleLike calls started so far
  last,      \* sequential spec: <<>> or <<record of the last completed call>>
  pc,        \* concurrent specs: the statement each goroutine is at
  tl,        \* concurrent spec: locals of the ToggleLike call in flight
  tlErr,     \* concurrent spec: what each goroutine's last ToggleLike returned
  episode,   \* concurrent spec: the calls that overlapped since all were idle
  files,     \* number of avatar files RegisterUser created under static/
  rg,        \* concurrent spec: locals of the RegisterUser call in flight
  lastReg,   \* <<>> or <<record of the last RegisterUser call that returned>>
  db,        \* tables categories, posts, post_categories, comments, replycomments
  gc,        \* concurrent spec: locals of the GetOrCreateCategoryIDs call in flight
  lastC      \* <<>> or <<record of the last content call that returned>>

authVars == <<users, sessions, now, nextSession, lg, httpResp, lastAuth>>
likeVars == <<likes, ncalls, last, tl, tlErr, episode>>
hostVars == <<files>>
regVars == <<rg, lastReg>>
contentVars == <<db, gc, lastC>>
vars == <<authVars, likeVars, hostVars, regVars, contentVars, pc>>

(***************************************************************************)
(* queries.go: ToggleLike                                                  *)
(***************************************************************************)
\* ToggleLikeValidate without the reaction-type check of lines 271-273
ToggleLikeValidate_AnyType(postID, commentID, reactionType) ==
  IF (postID = {} /\ commentID = {}) \/ (postID # {} /\ commentID # {})
    THEN ErrTarget
    ELSE "nil"

\* ToggleLikeValidate with line 274 rejecting only the call without any target
ToggleLikeValidate_BothAllowed(postID, commentID, reactionType) ==
  IF reactionType # "like" /\ reactionType # "dislike"
    THEN ErrInvalidType
    ELSE IF postID = {} /\ commentID = {}
      THEN ErrTarget
      ELSE "nil"

\* lines 271-276: the two argument checks, in the code's order
ToggleLikeValidate(postID, commentID, reactionType) ==
  IF reactionType # "like" /\ reactionType # "dislike"
    THEN ErrInvalidType
    ELSE IF (postID = {} /\ commentID = {}) \/ (postID # {} /\ commentID # {})
      THEN ErrTarget
      ELSE "nil"


\* the WHERE clause comparing the id with both target columns
ToggleLikeWhere_EitherColumn(row, userID, postID, commentID) ==
  /\ row.user_id = userID
  /\ row.post_id \cup row.comment_id = postID \cup commentID

\* lines 282-288: the WHERE clause of every statement of the call
\* (user_id = ? AND post_id = ?  when postID is given, else comment_id = ?)
ToggleLikeWhere(row, userID, postID, commentID) ==
  IF postID # {}
    THEN row.user_id = userID /\ row.post_id = postID
    ELSE row.user_id = userID /\ row.comment_id = commentID

\* line 290: QueryRow(...).Scan(&existingType): the type of the first matching
\* row in rowid order, or sql.ErrNoRows
ToggleLikeQuery(l, userID, postID, commentID) ==
  LET hits == {i \in DOMAIN l : ToggleLikeWhere(l[i], userID, postID, commentID)}
  IN  IF hits = {}
        THEN "ErrNoRows"
        ELSE l[CHOOSE i \in hits : \A j \in hits : i <= j].type

\* lines 296/298: the row an INSERT adds; only the given target column is set
NewLikeRow(userID, postID, commentID, reactionType) ==
  IF postID # {}
    THEN [user_id |-> userID, post_id |-> postID, comment_id |-> {},
          type |-> reactionType]
    ELSE [user_id |-> userID, post_id |-> {}, comment_id |-> commentID,
          type |-> reactionType]

\* The likes table as the schema declares it.  The schema file is not among
\* the sources; the data model gives the columns and names no UNIQUE index
\* over likes (uniqueness is said to be enforced by the store for users only),
\* so the table accepts every row an INSERT offers; created_at defaults to
\* the time of the INSERT.
LikesInsert(l, row) == Append(l, row @@ [created_at |-> now])

\* ToggleLikeExec whose "different reaction" case deletes instead of updating
ToggleLikeExec_DeleteOnSwitch(l, userID, postID, commentID, reactionType, existing) ==
  IF existing = "ErrNoRows"
    THEN LikesInsert(l, NewLikeRow(userID, postID, commentID, reactionType))
    ELSE SelectSeq(l, LAMBDA r : ~ToggleLikeWhere(r, userID, postID, commentID))

\* ToggleLikeExec whose "same reaction" case leaves the row in place
ToggleLikeExec_KeepOnSame(l, userID, postID, commentID, reactionType, existing) ==
  IF existing = "ErrNoRows"
    THEN LikesInsert(l, NewLikeRow(userID, postID, commentID, reactionType))
    ELSE [i \in DOMAIN l |->
            IF ToggleLikeWhere(l[i], userID, postID, commentID)
              THEN [l[i] EXCEPT !.type = reactionType]
              ELSE l[i]]

\* ToggleLikeExec whose "different reaction" case inserts a second row
ToggleLikeExec_InsertOnSwitch(l, userID, postID, commentID, reactionType, existing) ==
  IF existing = reactionType
    THEN SelectSeq(l, LAMBDA r : ~ToggleLikeWhere(r, userID, postID, commentID))
    ELSE LikesInsert(l, NewLikeRow(userID, postID, commentID, reactionType))


\* ToggleLike replacing the row on a switch of type: DELETE, then INSERT
ToggleLikeExec_ReinsertOnSwitch(l, userID, postID, commentID, reactionType, existing) ==
  IF existing = "ErrNoRows"
    THEN LikesInsert(l, NewLikeRow(userID, postID, commentID, reactionType))
    ELSE IF existing = reactionType
      THEN SelectSeq(l, LAMBDA r : ~ToggleLikeWhere(r, userID, postID, commentID))
      ELSE LikesInsert(SelectSeq(l, LAMBDA r : ~ToggleLikeWhere(r, userID, postID, commentID)),
                       NewLikeRow(userID, postID, commentID, reactionType))

\* lines 292-313: the statement the switch executes, given what Scan returned
ToggleLikeExec(l, userID, postID, commentID, reactionType, existing) ==
  IF existing = "ErrNoRows"
    THEN LikesInsert(l, NewLikeRow(userID, postID, commentID, reactionType))
    ELSE IF existing = reactionType
      THEN SelectSeq(l, LAMBDA r : ~ToggleLikeWhere(r, userID, postID, commentID))
      ELSE [i \in DOMAIN l |->
              IF ToggleLikeWhere(l[i], userID, postID, commentID)
                THEN [l[i] EXCEPT !.type = reactionType]
                ELSE l[i]]

\* lines 270-319: a whole call with nothing interleaved: [likes, err]
ToggleLikeResult(l, userID, postID, commentID, reactionType, fault) ==
  LET v == ToggleLikeValidate(postID, commentID, reactionType)
  IN  IF v # "nil"
        THEN [likes |-> l, err |-> v]
        ELSE IF fault # "none"
          THEN [likes |-> l, err |-> ErrDB]
          ELSE [likes |-> ToggleLikeExec(l, userID, postID, commentID, reactionType,
                            ToggleLikeQuery(l, userID, postID, commentID)),
                err |-> "nil"]

(***************************************************************************)
(* queries.go: CountLikesAndDislikes                                       *)
(***************************************************************************)
\* CountLikesAndDislikes whose query lost its WHERE clause (counts every row)
CountLikesAndDislikes_NoWhere(l, postID, commentID) ==
  IF (postID = {} /\ commentID = {}) \/ (postID # {} /\ commentID # {})
    THEN [likes |-> 0, dislikes |-> 0, err |-> ErrTarget]
    ELSE
      LET count(typ) == Cardinality({i \in DOMAIN l : l[i].type = typ})
      IN  [likes |-> count("like"), dislikes |-> count("dislike"), err |-> "nil"]

\* lines 321-350: SELECT type, COUNT(*) ... GROUP BY type over the target
CountLikesAndDislikes(l, postID, commentID) ==
  IF (postID = {} /\ commentID = {}) \/ (postID # {} /\ commentID # {})
    THEN [likes |-> 0, dislikes |-> 0, err |-> ErrTarget]
    ELSE
      LET rows == {i \in DOMAIN l :
                     IF postID # {} THEN l[i].post_id = postID
                                    ELSE l[i].comment_id = commentID}
          count(typ) == Cardinality({i \in rows : l[i].type = typ})
      IN  [likes |-> count("like"), dislikes |-> count("dislike"), err |-> "nil"]

(***************************************************************************)
(* utils (package not among the sources): what the handlers rely on.       *)
(***************************************************************************)
\* utils.HashPassword: a one-way salted hash; only the password that
\* produced a hash verifies against it
HashPassword(plain) == <<"hash", plain>>

\* utils.CheckPasswordHash
CheckPasswordHash(plain, hash) == hash = HashPassword(plain)

\* utils.ValidateAndSanitizeString(s, 100, "email") and utils.ValidateEmail:
\* the well-formed e-mail addresses among the request values
ValidEmail(email) ==
  email \in {"alice@forum.io", "bob@forum.io", "carol@forum.io", "dave@forum.io"}

\* utils.ValidateAndSanitizeString(s, 30, "username") and utils.ValidateUsername
ValidUsername(username) == username \in {"alice", "bob", "carol", "dave"}

\* utils.ValidatePassword: minimum length and composition
ValidPassword(password) == password \in {"Secret#1", "Secret#2"}

(***************************************************************************)
(* queries.go: users and sessions                                          *)
(***************************************************************************)
\* lines 697-716: GetUserByEmail; the matching rows (none: sql.ErrNoRows)
GetUserByEmail(us, email) == {u \in us : u.email = email}

\* lines 24-42: GetUserByUsername
GetUserByUsername(us, username) == {u \in us : u.username = username}

\* The sessions table as the schema declares it (the schema file is not
\* among the sources): id is the key; LoginUser deletes a user's rows itself
\* and goes on to insert when that fails, so no index keeps user_id unique.
SessionsInsert(ss, row) == ss \cup {row}

\* lines 719-728: CreateSession (sessionID is a fresh uuid, created_at now)
CreateSession(ss, sessionID, userID, t) ==
  SessionsInsert(ss, [id |-> sessionID, user_id |-> userID, created_at |-> t])

\* DeleteSession with the comparison of the WHERE clause inverted (id != ?)
DeleteSession_Others(ss, sessionID) == {r \in ss : r.id = sessionID}

\* lines 731-736: DeleteSession
DeleteSession(ss, sessionID) == {r \in ss : r.id # sessionID}


\* DeleteAllUserSessions without its WHERE clause
DeleteAllUserSessions_NoWhere(ss, userID) == {}

\* lines 740-745: DeleteAllUserSessions
DeleteAllUserSessions(ss, userID) == {r \in ss : r.user_id # userID}

\* lines 469-481: GetUserIDFromSession; "" when no row has the id
GetUserIDFromSession(ss, sessionID) ==
  IF \E r \in ss : r.id = sessionID
    THEN (CHOOSE r \in ss : r.id = sessionID).user_id
    ELSE ""

\* line 463: cutoffTime.Format("2006-01-02 15:04:05") writes the wall clock
\* of time.Local and drops the zone; t is the instant in hours UTC, z the
\* zone's offset, the result the hour the text reads
FormatLocal(t, z) == t + z

\* lines 460-466: CleanupSessions.  created_at was bound as a time.Time and
\* is stored with its zone offset, so datetime(created_at) is the instant in
\* UTC; datetime(?) reads the zoneless text of the cutoff as UTC.
CleanupSessionsResult(ss, t, expiryHours, z) ==
  LET cutoffTime == t - expiryHours
  IN  {r \in ss : ~(r.created_at <= FormatLocal(cutoffTime, z))}

(***************************************************************************)
(* auth.go: LoginUser                                                      *)
(***************************************************************************)
\* LoginCheck answering an unknown identity (sql.ErrNoRows, lines 203-206
\* and 227-230) with 404 "User not found"
LoginCheck_RevealUnknown(us, email, username, password, lookupFails) ==
  LET found == IF email # "" THEN GetUserByEmail(us, email)
                             ELSE GetUserByUsername(us, username)
      reject(code, text) == [status |-> code, msg |-> text, user |-> ""]
  IN  IF password = "" THEN reject(400, "Password cannot be empty")
      ELSE IF email = "" /\ username = ""
        THEN reject(400, "Email or username is required")
      ELSE IF email # "" /\ ~ValidEmail(email)
        THEN reject(400, "Invalid email format")
      ELSE IF email = "" /\ ~ValidUsername(username)
        THEN reject(400, "Invalid username format")
      ELSE IF lookupFails THEN reject(500, "Database error")
      ELSE IF found = {} THEN reject(404, "User not found")
      ELSE LET user == CHOOSE u \in found : TRUE
           IN  IF ~CheckPasswordHash(password, user.password_hash)
                 THEN reject(401, "Invalid credentials")
                 ELSE [status |-> 0, msg |-> "", user |-> user.id]

\* LoginCheck without the password check of lines 237-240
LoginCheck_NoPasswordCheck(us, email, username, password, lookupFails) ==
  LET found == IF email # "" THEN GetUserByEmail(us, email)
                             ELSE GetUserByUsername(us, username)
      reject(code, text) == [status |-> code, msg |-> text, user |-> ""]
  IN  IF password = "" THEN reject(400, "Password cannot be empty")
      ELSE IF email = "" /\ username = ""
        THEN reject(400, "Email or username is required")
      ELSE IF email # "" /\ ~ValidEmail(email)
        THEN reject(400, "Invalid email format")
      ELSE IF email = "" /\ ~ValidUsername(username)
        THEN reject(400, "Invalid username format")
      ELSE IF lookupFails THEN reject(500, "Database error")
      ELSE IF found = {} THEN reject(401, "Invalid credentials")
      ELSE [status |-> 0, msg |-> "", user |-> (CHOOSE u \in found : TRUE).id]

\* LoginCheck looking the user up before the field checks of lines 172-181
LoginCheck_LookupFirst(us, email, username, password, lookupFails) ==
  LET found == IF email # "" THEN GetUserByEmail(us, email)
                             ELSE GetUserByUsername(us, username)
      reject(code, text) == [status |-> code, msg |-> text, user |-> ""]
  IN  IF lookupFails THEN reject(500, "Database error")
      ELSE IF password = "" THEN reject(400, "Password cannot be empty")
      ELSE IF email = "" /\ username = ""
        THEN reject(400, "Email or username is required")
      ELSE IF email # "" /\ ~ValidEmail(email)
        THEN reject(400, "Invalid email format")
      ELSE IF email = "" /\ ~ValidUsername(username)
        THEN reject(400, "Invalid username format")
      ELSE IF found = {} THEN reject(401, "Invalid credentials")
      ELSE LET user == CHOOSE u \in found : TRUE
           IN  IF ~CheckPasswordHash(password, user.password_hash)
                 THEN reject(401, "Invalid credentials")
                 ELSE [status |-> 0, msg |-> "", user |-> user.id]

\* LoginCheck with the branches of line 186 swapped: the username is used
\* when there is one, the e-mail otherwise
LoginCheck_UsernameFirst(us, email, username, password, lookupFails) ==
  LET found == IF username # "" THEN GetUserByUsername(us, username)
                                ELSE GetUserByEmail(us, email)
      reject(code, text) == [status |-> code, msg |-> text, user |-> ""]
  IN  IF password = "" THEN reject(400, "Password cannot be empty")
      ELSE IF email = "" /\ username = ""
        THEN reject(400, "Email or username is required")
      ELSE IF username = "" /\ ~ValidEmail(email)
        THEN reject(400, "Invalid email format")
      ELSE IF username # "" /\ ~ValidUsername(username)
        THEN reject(400, "Invalid username format")
      ELSE IF lookupFails THEN reject(500, "Database error")
      ELSE IF found = {} THEN reject(401, "Invalid credentials")
      ELSE LET user == CHOOSE u \in found : TRUE
           IN  IF ~CheckPasswordHash(password, user.password_hash)
                 THEN reject(401, "Invalid credentials")
                 ELSE [status |-> 0, msg |-> "", user |-> user.id]

\* lines 167-240: decode, field checks, user lookup and password check.
\* status 0: the credentials verified and user is the id to log in.
LoginCheck(us, email, username, password, lookupFails) ==
  LET found == IF email # "" THEN GetUserByEmail(us, email)
                             ELSE GetUserByUsername(us, username)
      reject(code, text) == [status |-> code, msg |-> text, user |-> ""]
  IN  IF password = "" THEN reject(400, "Password cannot be empty")
      ELSE IF email = "" /\ username = ""
        THEN reject(400, "Email or username is required")
      ELSE IF email # "" /\ ~ValidEmail(email)
        THEN reject(400, "Invalid email format")
      ELSE IF email = "" /\ ~ValidUsername(username)
        THEN reject(400, "Invalid username format")
      ELSE IF lookupFails THEN reject(500, "Database error")
      ELSE IF found = {} THEN reject(401, "Invalid credentials")
      ELSE LET user == CHOOSE u \in found : TRUE
           IN  IF ~CheckPasswordHash(password, user.password_hash)
                 THEN reject(401, "Invalid credentials")
                 ELSE [status |-> 0, msg |-> "", user |-> user.id]


\* LoginFinish answering 500 when DeleteAllUserSessions fails
LoginFinish_AbortOnDelete(ss, userID, sessionID, t, deleteFails, createFails) ==
  IF deleteFails
    THEN [sessions |-> ss, status |-> 500,
          msg |-> "Failed to create session", cookie |-> {}]
  ELSE IF createFails
    THEN [sessions |-> DeleteAllUserSessions(ss, userID), status |-> 500,
          msg |-> "Failed to create session", cookie |-> {}]
  ELSE [sessions |-> CreateSession(DeleteAllUserSessions(ss, userID), sessionID, userID, t),
        status |-> 200, msg |-> "Logged in", cookie |-> {sessionID}]

\* lines 242-266 run whole: delete the user's sessions (a failure is logged
\* and ignored), create the new one, set the cookie: [sessions, status, cookie]
LoginFinish(ss, userID, sessionID, t, deleteFails, createFails) ==
  LET kept == IF deleteFails THEN ss ELSE DeleteAllUserSessions(ss, userID)
  IN  IF createFails
        THEN [sessions |-> kept, status |-> 500,
              msg |-> "Failed to create session", cookie |-> {}]
        ELSE [sessions |-> CreateSession(kept, sessionID, userID, t),
              status |-> 200, msg |-> "Logged in", cookie |-> {sessionID}]

(***************************************************************************)
(* queries.go and auth.go: registration                                    *)
(***************************************************************************)
\* auth.go line 79: the avatar of a user who uploaded none
DefaultAvatar == "/static/profiles/default.png"

ErrUniqueUsername == "UNIQUE constraint failed: users.username"
ErrUniqueEmail == "UNIQUE constraint failed: users.email"

\* The users table as the schema declares it (the schema file is not among
\* the sources): username and email are unique, and the INSERT that would
\* repeat one fails with SQLite's constraint error.  [users, err]
UsersInsert(us, row) ==
  IF \E u \in us : u.username = row.username
    THEN [users |-> us, err |-> ErrUniqueUsername]
    ELSE IF \E u \in us : u.email = row.email
      THEN [users |-> us, err |-> ErrUniqueEmail]
      ELSE [users |-> us \cup {row}, err |-> "nil"]

\* queries.go line 46: uuid.New().String(), an id no row has (users are
\* never deleted)
NewUserID(us) == "u" \o ToString(Cardinality(us) + 1)

\* CreateUser returning nil whatever Exec returned
CreateUser_DropsError(us, username, email, passwordHash, avatarURL, execFails) ==
  IF execFails
    THEN [users |-> us, err |-> "nil"]
    ELSE [users |-> UsersInsert(us, [id |-> NewUserID(us), username |-> username,
                                     email |-> email, password_hash |-> passwordHash,
                                     avatar_url |-> avatarURL]).users,
          err |-> "nil"]

\* queries.go lines 45-54: CreateUser.  [users, err]
CreateUser(us, username, email, passwordHash, avatarURL, execFails) ==
  IF execFails
    THEN [users |-> us, err |-> ErrDB]
    ELSE UsersInsert(us, [id |-> NewUserID(us), username |-> username,
                          email |-> email, password_hash |-> passwordHash,
                          avatar_url |-> avatarURL])

\* queries.go lines 484-489: the error text contains "UNIQUE constraint
\* failed"
IsUniqueConstraintError(err) == err \in {ErrUniqueUsername, ErrUniqueEmail}

\* the content types line 114 accepts
ImageTypes == {"image/jpeg", "image/png", "image/gif"}

\* RegisterCheck without the content-type check of lines 113-117
RegisterCheck_NoSniff(username, email, password, avatar, fault) ==
  LET reject(code, text, n) ==
        [status |-> code, msg |-> text, password_hash |-> <<>>, avatar_url |-> "",
         file |-> n]
  IN  IF username = "" \/ email = "" \/ password = ""
        THEN reject(400, "Missing required fields", 0)
      ELSE IF ~ValidUsername(username) THEN reject(400, "invalid username", 0)
      ELSE IF ~ValidEmail(email) THEN reject(400, "invalid email", 0)
      ELSE IF ~ValidPassword(password) THEN reject(400, "weak password", 0)
      ELSE IF avatar # "none" /\ fault = "create"
        THEN reject(500, "Failed to save avatar", 0)
      ELSE IF avatar = "empty" THEN reject(400, "Error reading avatar data", 1)
      ELSE IF avatar # "none" /\ fault = "copy"
        THEN reject(500, "Error saving avatar", 1)
      ELSE IF fault = "hash"
        THEN reject(500, "Error hashing password", IF avatar = "none" THEN 0 ELSE 1)
      ELSE [status |-> 0, msg |-> "", password_hash |-> HashPassword(password),
            avatar_url |-> IF avatar = "none" THEN DefaultAvatar ELSE "/static/avatar",
            file |-> IF avatar = "none" THEN 0 ELSE 1]

\* auth.go lines 32-139: field checks, the avatar upload and the password
\* hash.  status 0: the row to insert is ready; file: the number of files
\* created under static/ (os.Create of line 98 comes before the content
\* check, so a rejected avatar leaves its file).  The texts of the utils
\* validation errors stand for whatever utils returns.
RegisterCheck(username, email, password, avatar, fault) ==
  LET reject(code, text, n) ==
        [status |-> code, msg |-> text, password_hash |-> <<>>, avatar_url |-> "",
         file |-> n]
  IN  IF username = "" \/ email = "" \/ password = ""
        THEN reject(400, "Missing required fields", 0)
      ELSE IF ~ValidUsername(username) THEN reject(400, "invalid username", 0)
      ELSE IF ~ValidEmail(email) THEN reject(400, "invalid email", 0)
      ELSE IF ~ValidPassword(password) THEN reject(400, "weak password", 0)
      ELSE IF avatar # "none" /\ fault = "create"
        THEN reject(500, "Failed to save avatar", 0)
      ELSE IF avatar = "empty" THEN reject(400, "Error reading avatar data", 1)
      ELSE IF avatar # "none" /\ avatar \notin ImageTypes
        THEN reject(400, "Unsupported image format (use JPG, PNG, or GIF)", 1)
      ELSE IF avatar # "none" /\ fault = "copy"
        THEN reject(500, "Error saving avatar", 1)
      ELSE IF fault = "hash"
        THEN reject(500, "Error hashing password", IF avatar = "none" THEN 0 ELSE 1)
      ELSE [status |-> 0, msg |-> "", password_hash |-> HashPassword(password),
            avatar_url |-> IF avatar = "none" THEN DefaultAvatar ELSE "/static/avatar",
            file |-> IF avatar = "none" THEN 0 ELSE 1]


\* RegisterFinish answering every CreateUser failure as a conflict
RegisterFinish_AllConflict(us, username, email, passwordHash, avatarURL, execFails) ==
  LET r == CreateUser(us, username, email, passwordHash, avatarURL, execFails)
  IN  IF r.err = "nil"
        THEN [users |-> r.users, status |-> 201, msg |-> "User registered successfully"]
        ELSE [users |-> r.users, status |-> 409,
              msg |-> "Username or email already exists"]

\* auth.go lines 141-152: CreateUser and the answer.  [users, status, msg]
RegisterFinish(us, username, email, passwordHash, avatarURL, execFails) ==
  LET r == CreateUser(us, username, email, passwordHash, avatarURL, execFails)
  IN  IF r.err = "nil"
        THEN [users |-> r.users, status |-> 201, msg |-> "User registered successfully"]
        ELSE IF IsUniqueConstraintError(r.err)
          THEN [users |-> r.users, status |-> 409,
                msg |-> "Username or email already exists"]
          ELSE [users |-> r.users, status |-> 500, msg |-> "Database error"]

(***************************************************************************)
(* auth.go: LogoutUser, RequireAuth, GetUser                               *)
(***************************************************************************)
\* lines 304-326: no cookie: 200 at once; else DeleteSession, whose error
\* is answered 500 with the cookie left in place
LogoutResult(ss, cookie, deleteFails) ==
  IF cookie = {}
    THEN [sessions |-> ss, status |-> 200, msg |-> "Logged out"]
    ELSE IF deleteFails
      THEN [sessions |-> ss, status |-> 500, msg |-> "Failed to log out"]
      ELSE [sessions |-> DeleteSession(ss, CHOOSE t \in cookie : TRUE),
            status |-> 200, msg |-> "Logged out"]

\* utils.GetUserIDFromSession(db, r): the value of the request's session_id
\* cookie looked up with sqlite.GetUserIDFromSession; a request without the
\* cookie has no user
RequestUserID(ss, cookie, queryFails) ==
  IF cookie = {} THEN [user |-> "", err |-> "http: named cookie not present"]
  ELSE IF queryFails THEN [user |-> "", err |-> ErrDB]
  ELSE [user |-> GetUserIDFromSession(ss, CHOOSE t \in cookie : TRUE), err |-> "nil"]

\* RequireAuthResult admitting every request whose lookup returned no error
RequireAuthResult_NilErrOnly(ss, cookie, queryFails) ==
  LET r == RequestUserID(ss, cookie, queryFails)
  IN  IF r.err # "nil"
        THEN [user |-> "", ok |-> FALSE]
        ELSE [user |-> r.user, ok |-> TRUE]

\* lines 329-338: what RequireAuth returns
RequireAuthResult(ss, cookie, queryFails) ==
  LET r == RequestUserID(ss, cookie, queryFails)
  IN  IF r.err # "nil" \/ r.user = ""
        THEN [user |-> "", ok |-> FALSE]
        ELSE [user |-> r.user, ok |-> TRUE]

\* queries.go lines 747-769: GetUserByID; the matching rows
GetUserByID(us, userID) == {u \in us : u.id = userID}

\* the JSON object of a response that carries no profile
NoBody == <<>>

\* a profile written with every column of the users row
UserJSON_AllFields(u) == u

\* utils.SendJSONResponse(w, user, 200) of a *models.User: the fields the
\* encoding of models.User puts into the object, under their JSON names
UserJSON(u) == [f \in DOMAIN u \ {"password_hash"} |-> u[f]]


\* GetUser sending every column GetUserByID scanned
GetUserResult_RawRow(us, ss, cookie, queryFails, lookupFails) ==
  LET r == RequestUserID(ss, cookie, queryFails)
  IN  IF r.err # "nil" \/ r.user = ""
        THEN [status |-> 401, msg |-> "Unauthorized", user |-> "", body |-> NoBody]
      ELSE IF lookupFails
        THEN [status |-> 404, msg |-> "User not found", user |-> "", body |-> NoBody]
      ELSE IF GetUserByID(us, r.user) = {}
        THEN [status |-> 401, msg |-> "Unauthorized", user |-> "", body |-> NoBody]
      ELSE [status |-> 200, msg |-> "", user |-> r.user,
            body |-> UserJSON_AllFields(CHOOSE u \in GetUserByID(us, r.user) : TRUE)]

\* lines 276-294: what GetUser answers; user is the id of the profile sent,
\* body the JSON object sent with status 200
GetUserResult(us, ss, cookie, queryFails, lookupFails) ==
  LET r == RequestUserID(ss, cookie, queryFails)
  IN  IF r.err # "nil" \/ r.user = ""
        THEN [status |-> 401, msg |-> "Unauthorized", user |-> "", body |-> NoBody]
      ELSE IF lookupFails
        THEN [status |-> 404, msg |-> "User not found", user |-> "", body |-> NoBody]
      ELSE IF GetUserByID(us, r.user) = {}
        THEN [status |-> 401, msg |-> "Unauthorized", user |-> "", body |-> NoBody]
      ELSE [status |-> 200, msg |-> "", user |-> r.user,
            body |-> UserJSON(CHOOSE u \in GetUserByID(us, r.user) : TRUE)]

\* utils.ValidateUUID(userId): nil for a string in the canonical form of a
\* UUID, as the ids CreateUser generates are
ValidateUUID(userId) == userId \in {"u1", "u2", "u3", "u9"}

\* lines 340-355: what GetOwner answers for the user_id of the query string;
\* the request carries no session
GetOwnerResult(us, userId, lookupFails) ==
  IF ~ValidateUUID(userId)
    THEN [status |-> 400, msg |-> "Invalid user ID format", user |-> "", body |-> NoBody]
  ELSE IF lookupFails \/ GetUserByID(us, userId) = {}
    THEN [status |-> 404, msg |-> "User not found", user |-> "", body |-> NoBody]
  ELSE [status |-> 200, msg |-> "", user |-> userId,
        body |-> UserJSON(CHOOSE u \in GetUserByID(us, userId) : TRUE)]

(***************************************************************************)
(* Content store: categories, posts and their category associations,       *)
(* comments and replies (queries.go).  db is a record of the five tables,  *)
(* each a sequence of rows in rowid order, and of the id counters.         *)
(* The schema file is not among the sources; what the tables do on INSERT  *)
(* and DELETE follows the data model: category names are unique, ids and   *)
(* created_at are filled in by the store, a comment belongs to an existing *)
(* post and a reply to an existing comment, deleting a post removes its    *)
(* category associations and its comments, deleting a comment removes its  *)
(* replies, and reaction rows are not touched by the deletion of their     *)
(* target.                                                                 *)
(***************************************************************************)
EmptyDB ==
  [categories |-> <<>>, posts |-> <<>>, post_categories |-> <<>>,
   comments |-> <<>>, replycomments |-> <<>>,
   next |-> [posts |-> 1, comments |-> 1, replycomments |-> 1]]

\* the rows of a table (a WHERE clause is SelectSeq over the table)
Rows(table) == {table[i] : i \in DOMAIN table}

ErrUniqueCategory == "UNIQUE constraint failed: categories.name"
ErrForeignKey == "FOREIGN KEY constraint failed"
ErrCreateCategory == "could not create category"
ErrFetchCategory == "failed to fetch category"
ErrAssociate == "failed to insert into post_categories"

\* Table categories (id, name UNIQUE): the INSERT assigns the next id;
\* categories are never deleted, so that is the number of rows plus one.
CategoriesInsert(d, name) ==
  IF \E c \in Rows(d.categories) : c.name = name
    THEN [db |-> d, id |-> 0, err |-> ErrUniqueCategory]
    ELSE LET id == Len(d.categories) + 1
         IN  [db |-> [d EXCEPT !.categories = Append(@, [id |-> id, name |-> name])],
              id |-> id, err |-> "nil"]

\* the lookup below without its WHERE clause: the first row of the table
CategoryIDByName_NoWhere(d, name, selectFails) ==
  IF selectFails THEN [id |-> 0, err |-> ErrDB]
  ELSE IF d.categories = <<>> THEN [id |-> 0, err |-> "ErrNoRows"]
  ELSE [id |-> d.categories[1].id, err |-> "nil"]

\* line 252: SELECT id FROM categories WHERE name = ?  (QueryRow: first row)
CategoryIDByName(d, name, selectFails) ==
  LET hits == {i \in DOMAIN d.categories : d.categories[i].name = name}
  IN  IF selectFails THEN [id |-> 0, err |-> ErrDB]
      ELSE IF hits = {} THEN [id |-> 0, err |-> "ErrNoRows"]
      ELSE [id |-> d.categories[CHOOSE i \in hits : \A j \in hits : i <= j].id,
            err |-> "nil"]

\* the insert below without the store's answer: the row is added whatever
\* the table says
InsertCategory_Unchecked(d, name, insertFails) ==
  IF insertFails
    THEN [db |-> d, id |-> 0, err |-> ErrDB]
    ELSE LET id == Len(d.categories) + 1
         IN  [db |-> [d EXCEPT !.categories = Append(@, [id |-> id, name |-> name])],
              id |-> id, err |-> "nil"]

\* line 256: INSERT INTO categories (name) VALUES (?) RETURNING id
InsertCategory(d, name, insertFails) ==
  IF insertFails
    THEN [db |-> d, id |-> 0, err |-> ErrDB]
    ELSE CategoriesInsert(d, name)

\* which statement of a GetOrCreateCategoryIDs call the store fails: the
\* SELECT or the INSERT of the at-th name (at = 0: none)
NoFault == [at |-> 0, stmt |-> ""]

\* lines 250-265: the loop over names from the i-th on; ids are the ids
\* appended so far.  A failure returns nil ids and keeps what was inserted.
RECURSIVE ResolveFrom(_, _, _, _, _)
ResolveFrom(d, names, i, ids, fault) ==
  IF i > Len(names)
    THEN [db |-> d, ids |-> ids, err |-> "nil"]
    ELSE LET q == CategoryIDByName(d, names[i], fault.at = i /\ fault.stmt = "select")
         IN  IF q.err = "nil"
               THEN ResolveFrom(d, names, i + 1, Append(ids, q.id), fault)
             ELSE IF q.err = "ErrNoRows"
               THEN LET c == InsertCategory(d, names[i],
                                            fault.at = i /\ fault.stmt = "insert")
                    IN  IF c.err # "nil"
                          THEN [db |-> d, ids |-> <<>>, err |-> ErrCreateCategory]
                          ELSE ResolveFrom(c.db, names, i + 1, Append(ids, c.id), fault)
             ELSE [db |-> d, ids |-> <<>>, err |-> ErrFetchCategory]

\* lines 247-267: GetOrCreateCategoryIDs
GetOrCreateCategoryIDsResult(d, names, fault) ==
  ResolveFrom(d, names, 1, <<>>, fault)

(***************************************************************************)
(* Posts and their category associations.                                  *)
(***************************************************************************)
\* the zero value of models.Post (the time before any clock reading is -1)
NoPost ==
  [id |-> 0, user_id |-> "", title |-> "", content |-> "", image_url |-> "",
   created_at |-> -1]

\* Table posts: the INSERT assigns the next id, never used before, and
\* created_at defaults to the time of the INSERT.
PostsInsert(d, userID, title, content, imageURL) ==
  LET row == [id |-> d.next.posts, user_id |-> userID, title |-> title,
              content |-> content, image_url |-> imageURL, created_at |-> now]
  IN  [db |-> [d EXCEPT !.posts = Append(@, row), !.next.posts = @ + 1],
       row |-> row]

\* Table post_categories (post_id, category_id): both columns reference an
\* existing row; the pair is no key, one pair may be stored twice.
PostCategoriesInsert(d, postID, catID) ==
  IF /\ \E p \in Rows(d.posts) : p.id = postID
     /\ \E c \in Rows(d.categories) : c.id = catID
    THEN [db |-> [d EXCEPT !.post_categories =
                             Append(@, [post_id |-> postID, category_id |-> catID])],
          err |-> "nil"]
    ELSE [db |-> d, err |-> ErrForeignKey]

\* the loop below when a failed insert ends the call with the associations
\* made so far taken back
RECURSIVE AssociateAtomic(_, _, _, _, _, _)
AssociateAtomic(d0, d, post, categoryIDs, k, fault) ==
  IF k > Len(categoryIDs)
    THEN [db |-> d, post |-> post @@ [category_ids |-> categoryIDs], err |-> "nil"]
    ELSE LET a == IF fault.stmt = "category" /\ fault.at = k
                    THEN [db |-> d, err |-> ErrDB]
                    ELSE PostCategoriesInsert(d, post.id, categoryIDs[k])
         IN  IF a.err # "nil"
               THEN [db |-> d0, post |-> post @@ [category_ids |-> <<>>],
                     err |-> ErrAssociate]
               ELSE AssociateAtomic(d0, a.db, post, categoryIDs, k + 1, fault)

\* the loop below when the associations are stored in one batch at the end:
\* the returned list is the input list, but a duplicate id is stored once
RECURSIVE AssociateFrom_Distinct(_, _, _, _, _)
AssociateFrom_Distinct(d, post, categoryIDs, k, fault) ==
  IF k > Len(categoryIDs)
    THEN [db |-> d, post |-> post @@ [category_ids |-> categoryIDs], err |-> "nil"]
    ELSE LET seen == \E j \in 1..(k - 1) : categoryIDs[j] = categoryIDs[k]
             a == IF fault.stmt = "category" /\ fault.at = k
                    THEN [db |-> d, err |-> ErrDB]
                  ELSE IF seen THEN [db |-> d, err |-> "nil"]
                  ELSE PostCategoriesInsert(d, post.id, categoryIDs[k])
         IN  IF a.err # "nil"
               THEN [db |-> d, post |-> post @@ [category_ids |-> <<>>],
                     err |-> ErrAssociate]
               ELSE AssociateFrom_Distinct(a.db, post, categoryIDs, k + 1, fault)

\* lines 79-86: the loop over categoryIDs from the k-th on.  A failed insert
\* ends the call; the post row and the rows inserted so far stay.
RECURSIVE AssociateFrom(_, _, _, _, _)
AssociateFrom(d, post, categoryIDs, k, fault) ==
  IF k > Len(categoryIDs)
    THEN [db |-> d, post |-> post @@ [category_ids |-> categoryIDs], err |-> "nil"]
    ELSE LET a == IF fault.stmt = "category" /\ fault.at = k
                    THEN [db |-> d, err |-> ErrDB]
                    ELSE PostCategoriesInsert(d, post.id, categoryIDs[k])
         IN  IF a.err # "nil"
               THEN [db |-> d, post |-> post @@ [category_ids |-> <<>>],
                     err |-> ErrAssociate]
               ELSE AssociateFrom(a.db, post, categoryIDs, k + 1, fault)

\* CreatePost with the association loop undone on failure, post row included
CreatePostResult_RollsBack(d, userID, categoryIDs, title, content, imageURL, fault) ==
  IF fault.stmt = "post"
    THEN [db |-> d, post |-> NoPost @@ [category_ids |-> <<>>], err |-> ErrDB]
    ELSE LET p == PostsInsert(d, userID, title, content, imageURL)
         IN  AssociateAtomic(d, p.db, p.row, categoryIDs, 1, fault)

\* CreatePost storing each distinct category id once
CreatePostResult_Distinct(d, userID, categoryIDs, title, content, imageURL, fault) ==
  IF fault.stmt = "post"
    THEN [db |-> d, post |-> NoPost @@ [category_ids |-> <<>>], err |-> ErrDB]
    ELSE LET p == PostsInsert(d, userID, title, content, imageURL)
         IN  AssociateFrom_Distinct(p.db, p.row, categoryIDs, 1, fault)

\* lines 57-88: CreatePost; fault names the statement the store fails, the
\* INSERT INTO posts or the at-th INSERT INTO post_categories
CreatePostResult(d, userID, categoryIDs, title, content, imageURL, fault) ==
  IF fault.stmt = "post"
    THEN [db |-> d, post |-> NoPost @@ [category_ids |-> <<>>], err |-> ErrDB]
    ELSE LET p == PostsInsert(d, userID, title, content, imageURL)
         IN  AssociateFrom(p.db, p.row, categoryIDs, 1, fault)

\* line 112: SELECT category_id FROM post_categories WHERE post_id = ?
CategoryIDsOfPost(d, postID) ==
  LET OfPost(r) == r.post_id = postID
      rows == SelectSeq(d.post_categories, OfPost)
  IN  [k \in DOMAIN rows |-> rows[k].category_id]

\* the category names of the runs in ascending order of their bytes, the
\* order of ORDER BY name under the column's default collation
NamesAscending == <<"go", "news", "tech">>

\* rows ORDER BY name: for each name in ascending order, the rows that have it
RECURSIVE OrderByName(_, _)
OrderByName(rows, k) ==
  IF k > Len(NamesAscending)
    THEN <<>>
    ELSE LET Named(c) == c.name = NamesAscending[k]
         IN  SelectSeq(rows, Named) \o OrderByName(rows, k + 1)

\* lines 646-676: GetCategoryNamesByIDs: no query for an empty list; else
\* SELECT name FROM categories WHERE id IN (?, ..., ?) ORDER BY name, which
\* yields each row of categories whose id is in the list once
GetCategoryNamesByIDs(d, categoryIDs) ==
  IF Len(categoryIDs) = 0
    THEN <<>>
    ELSE LET InList(c) == \E k \in DOMAIN categoryIDs : categoryIDs[k] = c.id
             sorted == OrderByName(SelectSeq(d.categories, InList), 1)
         IN  [k \in DOMAIN sorted |-> sorted[k].name]


\* GetPost returning the error of GetCategoryNamesByIDs
GetPostResult_NamesFatal(d, postID, fault) ==
  LET hits == {p \in Rows(d.posts) : p.id = postID}
  IN  IF fault = "post"
        THEN [post |-> NoPost @@ [category_ids |-> <<>>, category_names |-> <<>>],
              err |-> ErrDB]
      ELSE IF hits = {}
        THEN [post |-> NoPost @@ [category_ids |-> <<>>, category_names |-> <<>>],
              err |-> "ErrNoRows"]
      ELSE LET p == CHOOSE p \in hits : TRUE
               ids == CategoryIDsOfPost(d, postID)
           IN  IF fault = "categories"
                 THEN [post |-> p @@ [category_ids |-> <<>>, category_names |-> <<>>],
                       err |-> ErrDB]
               ELSE IF fault = "names"
                 THEN [post |-> p @@ [category_ids |-> ids, category_names |-> <<>>],
                       err |-> ErrDB]
               ELSE [post |-> p @@ [category_ids |-> ids,
                                    category_names |-> GetCategoryNamesByIDs(d, ids)],
                     err |-> "nil"]

\* lines 91-136: GetPost; fault names the query the store fails ("post",
\* "categories" or "names"; a failed names lookup is logged and ignored)
GetPostResult(d, postID, fault) ==
  LET hits == {p \in Rows(d.posts) : p.id = postID}
  IN  IF fault = "post"
        THEN [post |-> NoPost @@ [category_ids |-> <<>>, category_names |-> <<>>],
              err |-> ErrDB]
      ELSE IF hits = {}
        THEN [post |-> NoPost @@ [category_ids |-> <<>>, category_names |-> <<>>],
              err |-> "ErrNoRows"]
      ELSE LET p == CHOOSE p \in hits : TRUE
               ids == CategoryIDsOfPost(d, postID)
           IN  IF fault = "categories"
                 THEN [post |-> p @@ [category_ids |-> <<>>, category_names |-> <<>>],
                       err |-> ErrDB]
                 ELSE [post |-> p @@ [category_ids |-> ids,
                                      category_names |->
                                        IF fault = "names" THEN <<>>
                                        ELSE GetCategoryNamesByIDs(d, ids)],
                       err |-> "nil"]

\* a sequence without its i-th element
RemoveAt(s, i) == SubSeq(s, 1, i - 1) \o SubSeq(s, i + 1, Len(s))

\* How the store orders rows of equal created_at under an ORDER BY
\* created_at depends on the access path it takes (a scan of the table, or
\* of an index in either direction), which the schema decides: in rowid
\* order or in the reverse of it.  It is the same for every run of one query.
TieOrders == {"rowid", "reverse"}

\* ORDER BY created_at dir ("ASC" or "DESC") over rows given in rowid order
RECURSIVE OrderByCreatedAt(_, _, _)
OrderByCreatedAt(rows, dir, ties) ==
  IF rows = <<>>
    THEN <<>>
    ELSE LET First(i, j) ==
               IF rows[i].created_at # rows[j].created_at
                 THEN IF dir = "DESC"
                        THEN rows[i].created_at > rows[j].created_at
                        ELSE rows[i].created_at < rows[j].created_at
                 ELSE IF ties = "rowid" THEN i <= j ELSE i >= j
             i == CHOOSE i \in DOMAIN rows : \A j \in DOMAIN rows : First(i, j)
         IN  <<rows[i]>> \o OrderByCreatedAt(RemoveAt(rows, i), dir, ties)

\* LIMIT ? OFFSET ?: a negative offset counts as 0, a negative limit as none
LimitOffset(rows, limit, offset) ==
  LET o == IF offset < 0 THEN 0 ELSE offset
      n == IF limit < 0 THEN Len(rows) ELSE limit
      hi == IF o + n > Len(rows) THEN Len(rows) ELSE o + n
  IN  SubSeq(rows, o + 1, hi)

\* posts JOIN users ON posts.user_id = users.id, in the order of posts
PostsJoinUsers(d, us) ==
  LET HasAuthor(p) == \E u \in us : u.id = p.user_id
      joined == SelectSeq(d.posts, HasAuthor)
  IN  [k \in DOMAIN joined |->
         joined[k] @@ [username |-> (CHOOSE u \in us : u.id = joined[k].user_id).username]]

\* lines 189-234: the category ids and names of each post of a page
WithCategories(d, page) ==
  [k \in DOMAIN page |->
     LET ids == CategoryIDsOfPost(d, page[k].id)
     IN  page[k] @@ [category_ids |-> ids,
                     category_names |-> GetCategoryNamesByIDs(d, ids)]]

\* GetPosts with OFFSET page * limit
GetPostsResult_OffByOnePage(d, us, page, limit, ties, fault) ==
  IF fault # "none"
    THEN [posts |-> <<>>, err |-> ErrDB]
    ELSE [posts |-> WithCategories(d,
                      LimitOffset(OrderByCreatedAt(PostsJoinUsers(d, us), "DESC", ties),
                                  limit, page * limit)),
          err |-> "nil"]

\* lines 138-238: GetPosts; fault names the query the store fails ("posts"
\* or "categories")
GetPostsResult(d, us, page, limit, ties, fault) ==
  IF fault # "none"
    THEN [posts |-> <<>>, err |-> ErrDB]
    ELSE [posts |-> WithCategories(d,
                      LimitOffset(OrderByCreatedAt(PostsJoinUsers(d, us), "DESC", ties),
                                  limit, (page - 1) * limit)),
          err |-> "nil"]

\* DELETE FROM posts WHERE id = ? as the tables carry it out: the post row
\* goes, and with it the association rows and the comments that reference
\* it and the replies to those comments.  The likes table l is not touched.
ExecDeletePost(d, l, postID) ==
  LET KeepPost(p) == p.id # postID
      KeepAssoc(r) == r.post_id # postID
      KeepComment(c) == c.post_id # postID
      gone == {c.id : c \in {c \in Rows(d.comments) : c.post_id = postID}}
      KeepReply(r) == r.parent_comment_id \notin gone
  IN  [db |-> [d EXCEPT !.posts = SelectSeq(@, KeepPost),
                        !.post_categories = SelectSeq(@, KeepAssoc),
                        !.comments = SelectSeq(@, KeepComment),
                        !.replycomments = SelectSeq(@, KeepReply)],
       likes |-> l]

\* DeletePost with the post's reaction rows deleted as well
DeletePostResult_WithReactions(d, l, postID, execFails) ==
  IF execFails
    THEN [db |-> d, likes |-> l, err |-> ErrDB]
    ELSE LET NotOnPost(r) == r.post_id # {postID}
         IN  [db |-> ExecDeletePost(d, l, postID).db, likes |-> SelectSeq(l, NotOnPost),
              err |-> "nil"]

\* DeletePost that reports success without running the statement
DeletePostResult_NoExec(d, l, postID, execFails) ==
  [db |-> d, likes |-> l, err |-> IF execFails THEN ErrDB ELSE "nil"]

\* lines 241-244: DeletePost, one DELETE; deleting no row is no error
DeletePostResult(d, l, postID, execFails) ==
  IF execFails
    THEN [db |-> d, likes |-> l, err |-> ErrDB]
    ELSE ExecDeletePost(d, l, postID) @@ [err |-> "nil"]

(***************************************************************************)
(* Comments and replies.                                                   *)
(***************************************************************************)
ErrCreateComment == "failed to create comment"

\* the zero values of models.Comment and models.ReplyComment
NoComment == [id |-> 0, user_id |-> "", post_id |-> 0, content |-> "", created_at |-> -1]
NoReply ==
  [id |-> 0, user_id |-> "", parent_comment_id |-> 0, content |-> "", created_at |-> -1]

\* Table comments: post_id references an existing post; the INSERT assigns
\* the next id and created_at.
CommentsInsert(d, userID, postID, content) ==
  IF \E p \in Rows(d.posts) : p.id = postID
    THEN LET row == [id |-> d.next.comments, user_id |-> userID, post_id |-> postID,
                     content |-> content, created_at |-> now]
         IN  [db |-> [d EXCEPT !.comments = Append(@, row), !.next.comments = @ + 1],
              row |-> row, err |-> "nil"]
    ELSE [db |-> d, row |-> NoComment, err |-> ErrForeignKey]

\* Table replycomments: parent_comment_id references an existing comment.
ReplyCommentsInsert(d, userID, parentCommentID, content) ==
  IF \E c \in Rows(d.comments) : c.id = parentCommentID
    THEN LET row == [id |-> d.next.replycomments, user_id |-> userID,
                     parent_comment_id |-> parentCommentID,
                     content |-> content, created_at |-> now]
         IN  [db |-> [d EXCEPT !.replycomments = Append(@, row),
                               !.next.replycomments = @ + 1],
              row |-> row, err |-> "nil"]
    ELSE [db |-> d, row |-> NoReply, err |-> ErrForeignKey]

\* CreateComment storing the row without asking the posts table
CreateCommentResult_AnyPost(d, userID, postID, content, insertFails) ==
  IF insertFails
    THEN [db |-> d, comment |-> NoComment, err |-> ErrCreateComment]
    ELSE LET row == [id |-> d.next.comments, user_id |-> userID, post_id |-> postID,
                     content |-> content, created_at |-> now]
         IN  [db |-> [d EXCEPT !.comments = Append(@, row), !.next.comments = @ + 1],
              comment |-> row, err |-> "nil"]

\* lines 492-514: CreateComment, one INSERT ... RETURNING
CreateCommentResult(d, userID, postID, content, insertFails) ==
  IF insertFails
    THEN [db |-> d, comment |-> NoComment, err |-> ErrCreateComment]
    ELSE LET c == CommentsInsert(d, userID, postID, content)
         IN  IF c.err # "nil"
               THEN [db |-> d, comment |-> NoComment, err |-> ErrCreateComment]
               ELSE [db |-> c.db, comment |-> c.row, err |-> "nil"]


\* CreateReplyComment storing the row without asking the comments table
CreateReplyCommentResult_AnyParent(d, userID, parentCommentID, content, insertFails) ==
  IF insertFails
    THEN [db |-> d, reply |-> NoReply, err |-> ErrDB]
    ELSE LET row == [id |-> d.next.replycomments, user_id |-> userID,
                     parent_comment_id |-> parentCommentID,
                     content |-> content, created_at |-> now]
         IN  [db |-> [d EXCEPT !.replycomments = Append(@, row),
                               !.next.replycomments = @ + 1],
              reply |-> row, err |-> "nil"]

\* lines 516-535: CreateReplyComment, one INSERT ... RETURNING
CreateReplyCommentResult(d, userID, parentCommentID, content, insertFails) ==
  IF insertFails
    THEN [db |-> d, reply |-> NoReply, err |-> ErrDB]
    ELSE LET r == ReplyCommentsInsert(d, userID, parentCommentID, content)
         IN  [db |-> r.db, reply |-> r.row, err |-> r.err]

\* t JOIN users u ON u.id = t.user_id, in the order of t
JoinUsers(table, us) ==
  LET HasAuthor(r) == \E u \in us : u.id = r.user_id
      joined == SelectSeq(table, HasAuthor)
  IN  [k \in DOMAIN joined |->
         joined[k] @@ [username |-> (CHOOSE u \in us : u.id = joined[k].user_id).username]]

\* lines 540-548: the top-level comments of the post, oldest first
CommentsOfPost(d, us, postID, ties) ==
  LET OfPost(c) == c.post_id = postID
  IN  OrderByCreatedAt(JoinUsers(SelectSeq(d.comments, OfPost), us), "ASC", ties)

\* lines 577-587: the replies to comments of the post, oldest first
RepliesOfPost(d, us, postID, ties) ==
  LET parents == {c.id : c \in {c \in Rows(d.comments) : c.post_id = postID}}
      ToPost(r) == r.parent_comment_id \in parents
  IN  OrderByCreatedAt(JoinUsers(SelectSeq(d.replycomments, ToPost), us), "ASC", ties)

\* GetPostComments handing every reply of the post to every comment
GetPostCommentsResult_AllReplies(d, us, postID, ties, fault) ==
  IF fault # "none"
    THEN [comments |-> <<>>, err |-> ErrDB]
    ELSE LET cs == CommentsOfPost(d, us, postID, ties)
             rs == RepliesOfPost(d, us, postID, ties)
         IN  [comments |-> [k \in DOMAIN cs |-> cs[k] @@ [replies |-> rs]],
              err |-> "nil"]

\* lines 538-615: GetPostComments; each reply is appended to the comment
\* commentsMap gives for its parent_comment_id; a comment no reply names
\* keeps its nil Replies (the empty list).  fault names the query the store
\* fails ("comments" or "replies").
GetPostCommentsResult(d, us, postID, ties, fault) ==
  IF fault # "none"
    THEN [comments |-> <<>>, err |-> ErrDB]
    ELSE LET cs == CommentsOfPost(d, us, postID, ties)
             rs == RepliesOfPost(d, us, postID, ties)
         IN  [comments |->
                [k \in DOMAIN cs |->
                   LET Mine(r) == r.parent_comment_id = cs[k].id
                   IN  cs[k] @@ [replies |-> SelectSeq(rs, Mine)]],
              err |-> "nil"]

\* DELETE FROM comments WHERE id = ? as the tables carry it out: the comment
\* goes, and with it the replies that reference it.  The likes table l is
\* not touched.
ExecDeleteComment(d, l, commentID) ==
  LET KeepComment(c) == c.id # commentID
      KeepReply(r) == r.parent_comment_id # commentID
  IN  [db |-> [d EXCEPT !.comments = SelectSeq(@, KeepComment),
                        !.replycomments = SelectSeq(@, KeepReply)],
       likes |-> l]

\* lines 689-694: DeleteComment, one DELETE; deleting no row is no error
DeleteCommentResult(d, l, commentID, execFails) ==
  IF execFails
    THEN [db |-> d, likes |-> l, err |-> ErrDB]
    ELSE ExecDeleteComment(d, l, commentID) @@ [err |-> "nil"]

(***************************************************************************)
(* Posts a user has liked.                                                 *)
(***************************************************************************)
\* The access paths of the three-table join: the outer loop runs over likes
\* or over posts, and rows of equal likes.created_at keep that order or its
\* reverse.
LikedPaths ==
  { [outer |-> "likes", ties |-> "rowid"], [outer |-> "likes", ties |-> "reverse"],
    [outer |-> "posts", ties |-> "rowid"] }

\* lines 366-370: posts JOIN users JOIN likes WHERE likes.user_id = ? AND
\* likes.type = 'like', one row per likes row, with the likes row's
\* created_at as liked_at; in the order of likes
LikedJoin(d, us, l, userID) ==
  LET ps == PostsJoinUsers(d, us)
      Liked(r) == /\ r.user_id = userID /\ r.type = "like"
                  /\ \E k \in DOMAIN ps : r.post_id = {ps[k].id}
      ls == SelectSeq(l, Liked)
  IN  [k \in DOMAIN ls |->
         [post |-> (CHOOSE p \in Rows(ps) : ls[k].post_id = {p.id}),
          created_at |-> ls[k].created_at]]

\* the same rows in the order of posts
RECURSIVE ByPost(_, _, _)
ByPost(ps, join, k) ==
  IF k > Len(ps)
    THEN <<>>
    ELSE LET OfPost(r) == r.post.id = ps[k].id
         IN  SelectSeq(join, OfPost) \o ByPost(ps, join, k + 1)

\* GetPostsLikedByUser without the test of likes.type
GetPostsLikedByUserResult_AnyType(d, us, l, userID, page, limit, path, fault) ==
  IF fault # "none"
    THEN [posts |-> <<>>, err |-> ErrDB]
    ELSE LET ps == PostsJoinUsers(d, us)
             Mine(r) == /\ r.user_id = userID
                        /\ \E k \in DOMAIN ps : r.post_id = {ps[k].id}
             ls == SelectSeq(l, Mine)
             join == [k \in DOMAIN ls |->
                        [post |-> (CHOOSE p \in Rows(ps) : ls[k].post_id = {p.id}),
                         created_at |-> ls[k].created_at]]
             rows == LimitOffset(OrderByCreatedAt(join, "DESC", path.ties),
                                 limit, (page - 1) * limit)
         IN  [posts |-> WithCategories(d, [k \in DOMAIN rows |-> rows[k].post]),
              err |-> "nil"]

\* lines 353-457: GetPostsLikedByUser; fault names the query the store fails
GetPostsLikedByUserResult(d, us, l, userID, page, limit, path, fault) ==
  IF fault # "none"
    THEN [posts |-> <<>>, err |-> ErrDB]
    ELSE LET join == LikedJoin(d, us, l, userID)
             base == IF path.outer = "posts"
                       THEN ByPost(PostsJoinUsers(d, us), join, 1)
                       ELSE join
             rows == LimitOffset(OrderByCreatedAt(base, "DESC", path.ties),
                                 limit, (page - 1) * limit)
         IN  [posts |-> WithCategories(d, [k \in DOMAIN rows |-> rows[k].post]),
              err |-> "nil"]

\* category name arguments; the lists of names a caller resolves
CategoryNames == {"tech", "news", "go"}
NameLists ==
  {<<>>, <<"tech">>, <<"news">>, <<"go">>, <<"tech", "news">>, <<"news", "tech">>,
   <<"news", "news">>}
CategoryFaults ==
  {NoFault} \cup {[at |-> i, stmt |-> s] : i \in 1..2, s \in {"select", "insert"}}

\* no GetOrCreateCategoryIDs call in flight
NoResolve ==
  [names |-> <<>>, i |-> 0, ids |-> <<>>, err |-> "", cause |-> "", done |-> FALSE]

(***************************************************************************)
(* Initial state: a fresh database with two registered users.              *)
(***************************************************************************)
NoCall == [user |-> "", post |-> {}, comment |-> {}, type |-> "", existing |-> ""]
NoEpisode == [base |-> <<>>, started |-> 0, calls |-> <<>>]

\* no response yet
NoResp == [status |-> 0, cookie |-> {}]

\* no RegisterUser call in flight
NoReg == [username |-> "", email |-> "", password_hash |-> <<>>, avatar_url |-> ""]

\* Two users are registered (the rows CreateUser inserted); nobody is logged in.
Init ==
  /\ users = { [id |-> "u1", username |-> "alice", email |-> "alice@forum.io",
                password_hash |-> HashPassword("Secret#1"),
                avatar_url |-> DefaultAvatar],
               [id |-> "u2", username |-> "bob", email |-> "bob@forum.io",
                password_hash |-> HashPassword("Secret#2"),
                avatar_url |-> DefaultAvatar] }
  /\ sessions = {}
  /\ now = 0
  /\ nextSession = 1
  /\ lg = [p \in Procs |-> ""]
  /\ httpResp = [p \in Procs |-> NoResp]
  /\ lastAuth = <<>>
  /\ likes = <<>>
  /\ ncalls = 0
  /\ last = <<>>
  /\ pc = [p \in Procs |-> "idle"]
  /\ tl = [p \in Procs |-> NoCall]
  /\ tlErr = [p \in Procs |-> ""]
  /\ episode = NoEpisode
  /\ files = 0
  /\ rg = [p \in Procs |-> NoReg]
  /\ lastReg = <<>>
  /\ db = EmptyDB
  /\ gc = [p \in Procs |-> NoResolve]
  /\ lastC = <<>>

(***************************************************************************)
(* Sequential reaction spec: one ToggleLike call at a time.                *)
(* last remembers the call just completed: its arguments, what it          *)
(* returned, the table before it, and (prev) the type and before-table of  *)
(* the call made immediately before it when that one succeeded for the     *)
(* same user and target.                                                   *)
(***************************************************************************)
ToggleLike(userID, postID, commentID, reactionType, fault) ==
  /\ LET r == ToggleLikeResult(likes, userID, postID, commentID, reactionType, fault)
         chained == /\ last # <<>>
                    /\ last[1].err = "nil"
                    /\ r.err = "nil"
                    /\ last[1].user = userID
                    /\ last[1].post = postID
                    /\ last[1].comment = commentID
     IN  /\ likes' = r.likes
         /\ last' = << [user |-> userID, post |-> postID, comment |-> commentID,
                        type |-> reactionType, err |-> r.err, before |-> likes,
                        prev |-> IF chained
                                   THEN << [type |-> last[1].type,
                                            before |-> last[1].before] >>
                                   ELSE <<>>] >>
  /\ ncalls' = ncalls + 1
  /\ UNCHANGED <<pc, tl, tlErr, episode, authVars, contentVars, hostVars, regVars>>

LikesSeqNext ==
  /\ ncalls < MaxCalls
  /\ \E u \in UserIDs, po \in PostArgs, co \in CommentArgs, t \in ReactionArgs,
        f \in DBFaults :
       ToggleLike(u, po, co, t, f)

LikesSeqSpec == Init /\ [][LikesSeqNext]_vars

(***************************************************************************)
(* Vocabulary of the reaction claims.                                      *)
(***************************************************************************)
\* the rows of l that are user u's reaction on the target (post, comment)
PairRows(l, u, post, comment) ==
  {i \in DOMAIN l : l[i].user_id = u /\ l[i].post_id = post /\ l[i].comment_id = comment}

\* the state of the pair (u, target) in table l
PairState(l, u, post, comment) ==
  LET types == {l[i].type : i \in PairRows(l, u, post, comment)}
  IN  IF types = {} THEN "NoReaction"
      ELSE IF types = {"like"} THEN "Liked"
      ELSE IF types = {"dislike"} THEN "Disliked"
      ELSE "Undefined"

\* the state a successful toggle of the given type switches a pair on to
StateOf(reactionType) == IF reactionType = "like" THEN "Liked" ELSE "Disliked"

\* the targets a reaction can have: exactly one of post and comment
Targets ==
  {<<po, {}>> : po \in PostArgs \ {{}}} \cup {<<{}, co>> : co \in CommentArgs \ {{}}}

\* C3: in the sequential spec, every ToggleLike call that returned nil moved
\* its (user, target) pair as the transition table says: NoReaction + t -> t
\* with one row inserted; Liked + like and Disliked + dislike -> NoReaction
\* with the row deleted; Liked + dislike -> Disliked and Disliked + like ->
\* Liked with the row updated in place and no row added or removed.
C3_ToggleFollowsTable ==
  \A k \in DOMAIN last :
    LET e == last[k]
        s == PairState(e.before, e.user, e.post, e.comment)
        t == PairState(likes, e.user, e.post, e.comment)
        n == Cardinality(PairRows(likes, e.user, e.post, e.comment))
    IN  e.err = "nil" =>
          /\ s \in {"NoReaction", "Liked", "Disliked"}
          /\ s = "NoReaction" =>
               t = StateOf(e.type) /\ n = 1 /\ Len(likes) = Len(e.before) + 1
          /\ s = StateOf(e.type) =>
               t = "NoReaction" /\ n = 0 /\ Len(likes) = Len(e.before) - 1
          /\ s \notin {"NoReaction", StateOf(e.type)} =>
               t = StateOf(e.type) /\ n = 1 /\ Len(likes) = Len(e.before)

\* C3 witness: a call that switched a Liked pair to Disliked has completed
C3_Witness ==
  \E k \in DOMAIN last :
    /\ last[k].err = "nil"
    /\ last[k].type = "dislike"
    /\ PairState(last[k].before, last[k].user, last[k].post, last[k].comment) = "Liked"
    /\ PairState(likes, last[k].user, last[k].post, last[k].comment) = "Disliked"

\* C4: two consecutive successful ToggleLike calls of one user on one target
\* with the same type, started from NoReaction, end in NoReaction, and
\* CountLikesAndDislikes of the target is what it was before the two calls.
C4_TogglePairCancels ==
  \A k \in DOMAIN last :
    LET e == last[k]
    IN  ( /\ e.err = "nil"
          /\ e.prev # <<>>
          /\ e.prev[1].type = e.type
          /\ PairState(e.prev[1].before, e.user, e.post, e.comment) = "NoReaction" )
        => /\ PairState(likes, e.user, e.post, e.comment) = "NoReaction"
           /\ CountLikesAndDislikes(likes, e.post, e.comment)
                = CountLikesAndDislikes(e.prev[1].before, e.post, e.comment)

\* C4 witness: like, like by one user on a target another user reacted to
C4_Witness ==
  \E k \in DOMAIN last :
    /\ last[k].err = "nil"
    /\ last[k].prev # <<>>
    /\ last[k].prev[1].type = last[k].type
    /\ PairState(last[k].prev[1].before, last[k].user, last[k].post, last[k].comment)
         = "NoReaction"
    /\ CountLikesAndDislikes(likes, last[k].post, last[k].comment).dislikes = 1

\* C5: from NoReaction, ToggleLike(u,p,like) directly followed by
\* ToggleLike(u,p,dislike) leaves the pair Disliked; u adds 0 to the like
\* count and 1 to the dislike count of p, so with no other reaction on p the
\* counts are (0, 1).
C5_LikeThenDislike ==
  \A k \in DOMAIN last :
    LET e == last[k]
        c0 == CountLikesAndDislikes(e.prev[1].before, e.post, e.comment)
        c2 == CountLikesAndDislikes(likes, e.post, e.comment)
    IN  ( /\ e.err = "nil"
          /\ e.prev # <<>>
          /\ e.prev[1].type = "like"
          /\ e.type = "dislike"
          /\ PairState(e.prev[1].before, e.user, e.post, e.comment) = "NoReaction" )
        => /\ PairState(likes, e.user, e.post, e.comment) = "Disliked"
           /\ c2.err = "nil"
           /\ c2.likes = c0.likes
           /\ c2.dislikes = c0.dislikes + 1
           /\ (c0.likes = 0 /\ c0.dislikes = 0) => (c2.likes = 0 /\ c2.dislikes = 1)

\* C5 witness: like then dislike on a target with no other reaction
C5_Witness ==
  \E k \in DOMAIN last :
    /\ last[k].err = "nil"
    /\ last[k].prev # <<>>
    /\ last[k].prev[1].type = "like"
    /\ last[k].type = "dislike"
    /\ last[k].prev[1].before = <<>>
    /\ CountLikesAndDislikes(likes, last[k].post, last[k].comment)
         = [likes |-> 0, dislikes |-> 1, err |-> "nil"]

\* C8: a ToggleLike call whose reaction type is not exactly "like" or
\* "dislike" returns the validation error and leaves the likes table as it
\* was, whatever targets it names and whatever state the pair is in.
C8_InvalidTypeRejected ==
  \A k \in DOMAIN last :
    last[k].type \notin {"like", "dislike"} =>
      last[k].err = ErrInvalidType /\ likes = last[k].before

\* C8 witness: an invalid type was offered for a pair that is Liked
C8_Witness ==
  \E k \in DOMAIN last :
    /\ last[k].type \notin {"like", "dislike"}
    /\ PairState(last[k].before, last[k].user, last[k].post, last[k].comment) = "Liked"

\* C9: a ToggleLike call naming both a post and a comment, or neither,
\* returns a validation error and writes nothing, and every row of the likes
\* table has exactly one of post_id and comment_id set.
C9_ExactlyOneTarget ==
  /\ \A k \in DOMAIN last :
       (last[k].post = {}) = (last[k].comment = {}) =>
         /\ last[k].err \in {ErrInvalidType, ErrTarget}
         /\ likes = last[k].before
  /\ \A i \in DOMAIN likes :
       Cardinality(likes[i].post_id) + Cardinality(likes[i].comment_id) = 1

\* C9 witness: a call with a valid type and both targets was made on a table
\* that already holds reactions
C9_Witness ==
  \E k \in DOMAIN last :
    /\ last[k].post # {}
    /\ last[k].comment # {}
    /\ last[k].type = "like"
    /\ Len(likes) >= 2

\* C10: after ToggleLike calls run one at a time, CountLikesAndDislikes of
\* every target returns, without error, as likes the number of users whose
\* state on it is Liked and as dislikes the number whose state is Disliked;
\* (0, 0) for a target without rows.
C10_CountsMatchStates ==
  \A tg \in Targets :
    LET c == CountLikesAndDislikes(likes, tg[1], tg[2])
    IN  /\ c.err = "nil"
        /\ c.likes = Cardinality({u \in UserIDs : PairState(likes, u, tg[1], tg[2]) = "Liked"})
        /\ c.dislikes =
             Cardinality({u \in UserIDs : PairState(likes, u, tg[1], tg[2]) = "Disliked"})

\* C10 witness: one target has a like and a dislike, another has no row
C10_Witness ==
  \E tg \in Targets, other \in Targets :
    /\ CountLikesAndDislikes(likes, tg[1], tg[2]) = [likes |-> 1, dislikes |-> 1, err |-> "nil"]
    /\ other # tg
    /\ Len(likes) = 2
    /\ CountLikesAndDislikes(likes, other[1], other[2]) = [likes |-> 0, dislikes |-> 0, err |-> "nil"]

(***************************************************************************)
(* Concurrent reaction spec: two goroutines run ToggleLike statement by    *)
(* statement.  A call is the SELECT of line 290 and then the one statement *)
(* the switch picks; db is a plain *sql.DB, so nothing holds the table     *)
(* between the two.                                                        *)
(***************************************************************************)
\* episode bookkeeping: a call starts (a new episode when nobody is running)
EpisodeBegin(ep) ==
  IF \A q \in Procs : pc[q] = "idle"
    THEN [base |-> likes, started |-> 1, calls |-> <<>>]
    ELSE [ep EXCEPT !.started = @ + 1]

\* episode bookkeeping: a call returns
EpisodeEnd(ep, call) == [ep EXCEPT !.calls = Append(@, call)]

\* lines 270-290: argument checks and the SELECT; returns at once on a
\* validation error or on a Scan error other than sql.ErrNoRows (line 315)
ToggleLikeBegin(p, userID, postID, commentID, reactionType, fault) ==
  /\ pc[p] = "idle"
  /\ ncalls < MaxConcCalls
  /\ ncalls' = ncalls + 1
  /\ LET v == ToggleLikeValidate(postID, commentID, reactionType)
         err == IF v # "nil" THEN v ELSE IF fault = "query" THEN ErrDB ELSE "nil"
         call == [user |-> userID, post |-> postID, comment |-> commentID,
                  type |-> reactionType, err |-> err]
     IN  IF err # "nil"
           THEN /\ tlErr' = [tlErr EXCEPT ![p] = err]
                /\ episode' = EpisodeEnd(EpisodeBegin(episode), call)
                /\ UNCHANGED <<pc, tl>>
           ELSE /\ pc' = [pc EXCEPT ![p] = "exec"]
                /\ tl' = [tl EXCEPT ![p] =
                            [user |-> userID, post |-> postID, comment |-> commentID,
                             type |-> reactionType,
                             existing |-> ToggleLikeQuery(likes, userID, postID, commentID)]]
                /\ episode' = EpisodeBegin(episode)
                /\ UNCHANGED tlErr
  /\ UNCHANGED <<likes, last, authVars, contentVars, hostVars, regVars>>

\* lines 292-318: the INSERT, DELETE or UPDATE chosen from what Scan returned
ToggleLikeWrite(p, fault) ==
  /\ pc[p] = "exec"
  /\ likes' = IF fault = "exec"
                THEN likes
                ELSE ToggleLikeExec(likes, tl[p].user, tl[p].post, tl[p].comment,
                                    tl[p].type, tl[p].existing)
  /\ tlErr' = [tlErr EXCEPT ![p] = IF fault = "exec" THEN ErrDB ELSE "nil"]
  /\ episode' = EpisodeEnd(episode,
                  [user |-> tl[p].user, post |-> tl[p].post, comment |-> tl[p].comment,
                   type |-> tl[p].type, err |-> IF fault = "exec" THEN ErrDB ELSE "nil"])
  /\ pc' = [pc EXCEPT ![p] = "idle"]
  /\ tl' = [tl EXCEPT ![p] = NoCall]
  /\ UNCHANGED <<ncalls, last, authVars, contentVars, hostVars, regVars>>

LikesConcNext ==
  \/ \E p \in Procs, u \in UserIDs, po \in PostArgs, co \in CommentArgs,
        t \in ReactionArgs, f \in {"none", "query"} :
       ToggleLikeBegin(p, u, po, co, t, f)
  \/ \E p \in Procs, f \in {"none", "exec"} : ToggleLikeWrite(p, f)

LikesConcSpec == Init /\ [][LikesConcNext]_vars

\* C6: in every reachable state, also after two concurrent ToggleLike calls
\* of one user on one target, the likes table holds at most one row per
\* (user_id, post_id) and at most one row per (user_id, comment_id).
C6_OneRowPerPair ==
  \A u \in UserIDs, tg \in Targets :
    Cardinality(PairRows(likes, u, tg[1], tg[2])) <= 1

\* two tables hold the same rows, each as often (row order ignored)
SameRows(a, b) ==
  \A r \in {a[i] : i \in DOMAIN a} \cup {b[i] : i \in DOMAIN b} :
    Cardinality({i \in DOMAIN a : a[i] = r}) = Cardinality({i \in DOMAIN b : b[i] = r})

\* the table after call c1 and then call c2, each run whole, from table l
Serial(l, c1, c2) ==
  ToggleLikeResult(
    ToggleLikeResult(l, c1.user, c1.post, c1.comment, c1.type, "none").likes,
    c2.user, c2.post, c2.comment, c2.type, "none").likes

\* C7: every ToggleLike call is one atomic transaction: when two calls on
\* the same (user, target) pair overlapped and both returned nil, the likes
\* table equals the result of running the two in one of the serial orders.
C7_TogglesSerializable ==
  ( /\ \A p \in Procs : pc[p] = "idle"
    /\ episode.started = 2
    /\ Len(episode.calls) = 2
    /\ episode.calls[1].err = "nil"
    /\ episode.calls[2].err = "nil"
    /\ episode.calls[1].user = episode.calls[2].user
    /\ episode.calls[1].post = episode.calls[2].post
    /\ episode.calls[1].comment = episode.calls[2].comment )
  => \/ SameRows(likes, Serial(episode.base, episode.calls[1], episode.calls[2]))
     \/ SameRows(likes, Serial(episode.base, episode.calls[2], episode.calls[1]))

(***************************************************************************)
(* Sequential session spec: one auth request at a time; the maintenance    *)
(* job and the clock run between requests.  lastAuth remembers the request *)
(* just answered and the sessions table before it.                         *)
(***************************************************************************)
\* auth.go lines 155-267 run whole
LoginUser(email, username, password, lookupFails, deleteFails, createFails) ==
  /\ nextSession <= MaxSessions
  /\ LET c == LoginCheck(users, email, username, password, lookupFails)
         f == LoginFinish(sessions, c.user, nextSession, now, deleteFails, createFails)
         req == [email |-> email, username |-> username, password |-> password,
                 lookupFails |-> lookupFails, deleteFails |-> deleteFails,
                 createFails |-> createFails]
     IN  IF c.status # 0
           THEN /\ lastAuth' = << [op |-> "login", req |-> req, user |-> "",
                                   status |-> c.status, msg |-> c.msg,
                                   cookie |-> {}, before |-> sessions] >>
                /\ UNCHANGED <<sessions, nextSession>>
           ELSE /\ sessions' = f.sessions
                /\ nextSession' = IF f.status = 200 THEN nextSession + 1 ELSE nextSession
                /\ lastAuth' = << [op |-> "login", req |-> req, user |-> c.user,
                                   status |-> f.status, msg |-> f.msg,
                                   cookie |-> f.cookie, before |-> sessions] >>
  /\ UNCHANGED <<users, now, lg, httpResp, likeVars, contentVars, hostVars, regVars, pc>>

\* auth.go lines 297-327: LogoutUser; cookie is the request's session_id.
\* req.repeat: the request before this one was a LogoutUser with the same
\* cookie that returned 200; req.fault: the store failed the DELETE.
LogoutUser(cookie, deleteFails) ==
  /\ LET r == LogoutResult(sessions, cookie, deleteFails)
         repeat == /\ lastAuth # <<>>
                   /\ lastAuth[1].op = "logout"
                   /\ lastAuth[1].status = 200
                   /\ lastAuth[1].cookie = cookie
     IN  /\ sessions' = r.sessions
         /\ lastAuth' = << [op |-> "logout", req |-> [repeat |-> repeat, fault |-> cookie # {} /\ deleteFails],
                            user |-> "",
                            status |-> r.status, msg |-> r.msg,
                            cookie |-> cookie, before |-> sessions] >>
  /\ UNCHANGED <<users, now, nextSession, lg, httpResp, likeVars, contentVars, hostVars, regVars, pc>>

\* auth.go lines 329-338: RequireAuth, as the handlers of the mutating
\* endpoints call it first
RequireAuth(cookie, queryFails) ==
  /\ LET r == RequireAuthResult(sessions, cookie, queryFails)
     IN  lastAuth' = << [op |-> "requireauth", req |-> <<>>, user |-> r.user,
                         status |-> IF r.ok THEN 0 ELSE 401,
                         msg |-> IF r.ok THEN "" ELSE "Unauthorized2",
                         cookie |-> cookie, before |-> sessions] >>
  /\ UNCHANGED <<users, sessions, now, nextSession, lg, httpResp, likeVars, contentVars,
                 hostVars, regVars, pc>>

\* auth.go lines 269-295: GetUser
GetUser(cookie, queryFails, lookupFails) ==
  /\ LET r == GetUserResult(users, sessions, cookie, queryFails, lookupFails)
     IN  lastAuth' = << [op |-> "getuser", req |-> <<>>, user |-> r.user,
                         status |-> r.status, msg |-> r.msg,
                         cookie |-> cookie, before |-> sessions,
                         body |-> r.body] >>
  /\ UNCHANGED <<users, sessions, now, nextSession, lg, httpResp, likeVars, contentVars,
                 hostVars, regVars, pc>>

\* queries.go lines 460-466: the periodic purge of expired sessions; status
\* 0 is a nil error, 500 the error of the DELETE; req.at is time.Now() of
\* line 461
CleanupSessions(expiryHours, z, deleteFails) ==
  /\ sessions' = IF deleteFails THEN sessions
                 ELSE CleanupSessionsResult(sessions, now, expiryHours, z)
  /\ lastAuth' = << [op |-> "cleanup", req |-> [hours |-> expiryHours, zone |-> z, at |-> now],
                     user |-> "",
                     status |-> IF deleteFails THEN 500 ELSE 0, msg |-> "",
                     cookie |-> {}, before |-> sessions] >>
  /\ UNCHANGED <<users, now, nextSession, lg, httpResp, likeVars, contentVars, hostVars, regVars, pc>>

\* an hour passes
Tick ==
  /\ now < MaxTime
  /\ now' = now + 1
  /\ UNCHANGED <<users, sessions, nextSession, lg, httpResp, lastAuth, likeVars, contentVars, hostVars, regVars, pc>>

\* the identifiers of the logins during which the store fails a statement:
\* a user by e-mail, a user by username, nobody's e-mail
FaultedLogins == {<<"alice@forum.io", "">>, <<"", "bob">>, <<"carol@forum.io", "">>}

AuthSeqNext ==
  \/ \E e \in EmailArgs, n \in UsernameArgs, pw \in PasswordArgs, f \in LoginFaults :
       /\ f = "none" \/ <<e, n>> \in FaultedLogins
       /\ LoginUser(e, n, pw, f = "lookup", f \in {"delete", "both"}, f \in {"create", "both"})
  \/ \E c \in CookieArgs, df \in BOOLEAN : LogoutUser(c, df)
  \/ \E c \in CookieArgs, qf \in BOOLEAN : RequireAuth(c, qf)
  \/ \E c \in CookieArgs, qf \in BOOLEAN, lf \in BOOLEAN : GetUser(c, qf, lf)
  \/ \E h \in ExpiryArgs, z \in ZoneOffsets, df \in BOOLEAN : CleanupSessions(h, z, df)
  \/ Tick

AuthSeqSpec == Init /\ [][AuthSeqNext]_vars

(***************************************************************************)
(* Concurrent session spec: two goroutines run LoginUser statement by      *)
(* statement (lookup and password check, DeleteAllUserSessions,            *)
(* CreateSession); LogoutUser and CleanupSessions are one statement each   *)
(* and run at any point in between.                                        *)
(***************************************************************************)
\* auth.go lines 155-240
LoginUserBegin(p, email, username, password, lookupFails) ==
  /\ pc[p] = "idle"
  /\ nextSession + Cardinality({q \in Procs : pc[q] # "idle"}) <= MaxSessions
  /\ LET c == LoginCheck(users, email, username, password, lookupFails)
     IN  IF c.status # 0
           THEN /\ httpResp' = [httpResp EXCEPT ![p] = [status |-> c.status, cookie |-> {}]]
                /\ UNCHANGED <<pc, lg>>
           ELSE /\ pc' = [pc EXCEPT ![p] = "login_delete"]
                /\ lg' = [lg EXCEPT ![p] = c.user]
                /\ UNCHANGED httpResp
  /\ UNCHANGED <<users, sessions, now, nextSession, lastAuth, likeVars, contentVars, hostVars, regVars>>

\* auth.go lines 244-248: the error is logged and the login goes on
LoginUserDelete(p, deleteFails) ==
  /\ pc[p] = "login_delete"
  /\ sessions' = IF deleteFails THEN sessions ELSE DeleteAllUserSessions(sessions, lg[p])
  /\ pc' = [pc EXCEPT ![p] = "login_create"]
  /\ UNCHANGED <<users, now, nextSession, lg, httpResp, lastAuth, likeVars, contentVars, hostVars, regVars>>

\* auth.go lines 251-266
LoginUserCreate(p, createFails) ==
  /\ pc[p] = "login_create"
  /\ IF createFails
       THEN /\ httpResp' = [httpResp EXCEPT ![p] = [status |-> 500, cookie |-> {}]]
            /\ UNCHANGED <<sessions, nextSession>>
       ELSE /\ sessions' = CreateSession(sessions, nextSession, lg[p], now)
            /\ nextSession' = nextSession + 1
            /\ httpResp' = [httpResp EXCEPT ![p] = [status |-> 200, cookie |-> {nextSession}]]
  /\ pc' = [pc EXCEPT ![p] = "idle"]
  /\ lg' = [lg EXCEPT ![p] = ""]
  /\ UNCHANGED <<users, now, lastAuth, likeVars, contentVars, hostVars, regVars>>

\* auth.go lines 297-327: LogoutUser served by goroutine p (one statement)
LogoutUserBy(p, cookie, deleteFails) ==
  /\ pc[p] = "idle"
  /\ sessions' = LogoutResult(sessions, cookie, deleteFails).sessions
  /\ httpResp' = [httpResp EXCEPT ![p] =
                    [status |-> LogoutResult(sessions, cookie, deleteFails).status,
                     cookie |-> {}]]
  /\ UNCHANGED <<users, now, nextSession, lg, lastAuth, likeVars, contentVars, hostVars, regVars, pc>>

\* queries.go lines 460-466: the periodic purge, run beside the handlers
CleanupSessionsJob(expiryHours, z, deleteFails) ==
  /\ sessions' = IF deleteFails THEN sessions
                 ELSE CleanupSessionsResult(sessions, now, expiryHours, z)
  /\ UNCHANGED <<users, now, nextSession, lg, httpResp, lastAuth, likeVars, contentVars, hostVars, regVars, pc>>

AuthConcNext ==
  \/ \E p \in Procs, e \in EmailArgs, n \in UsernameArgs, pw \in PasswordArgs,
        lf \in BOOLEAN :
       LoginUserBegin(p, e, n, pw, lf)
  \/ \E p \in Procs, df \in BOOLEAN : LoginUserDelete(p, df)
  \/ \E p \in Procs, cf \in BOOLEAN : LoginUserCreate(p, cf)
  \/ \E p \in Procs, c \in CookieArgs, df \in BOOLEAN : LogoutUserBy(p, c, df)
  \/ \E h \in ExpiryArgs, z \in ZoneOffsets, df \in BOOLEAN :
       CleanupSessionsJob(h, z, df)
  \/ Tick

AuthConcSpec == Init /\ [][AuthConcNext]_vars

\* C1: in every reachable state, under any interleaving of LoginUser,
\* LogoutUser and CleanupSessions (two concurrent logins of one user
\* included), the sessions table holds at most one row per user_id.
C1_OneSessionPerUser ==
  \A u \in UserIDs : Cardinality({r \in sessions : r.user_id = u}) <= 1

\* C2: when a user who logged in successfully logs in successfully again,
\* the logins running one after the other, then after the second login the
\* first login's token resolves to no user and the second token resolves to
\* that user.
C2_SecondLoginInvalidatesFirst ==
  \A k \in DOMAIN lastAuth :
    LET e == lastAuth[k]
    IN  (e.op = "login" /\ e.status = 200) =>
          /\ \A t \in e.cookie : GetUserIDFromSession(sessions, t) = e.user
          /\ \A r \in e.before : r.user_id = e.user => GetUserIDFromSession(sessions, r.id) = ""

(***************************************************************************)
(* Sequential registration spec: one RegisterUser call at a time.          *)
(* lastReg remembers the call just answered: the form, what failed, the    *)
(* answer, whether CreateUser was called, and the users table before and   *)
(* after.                                                                  *)
(***************************************************************************)
\* auth.go lines 19-153 run whole
RegisterUser(username, email, password, avatar, fault) ==
  /\ files < MaxFiles
  /\ LET c == RegisterCheck(username, email, password, avatar, fault)
         f == RegisterFinish(users, username, email, c.password_hash, c.avatar_url,
                             fault = "exec")
         req == [username |-> username, email |-> email, password |-> password,
                 avatar |-> avatar, fault |-> fault]
     IN  /\ files' = files + c.file
         /\ IF c.status # 0
              THEN /\ lastReg' = << [req |-> req, status |-> c.status, msg |-> c.msg,
                                     reached |-> FALSE, before |-> users,
                                     after |-> users] >>
                   /\ UNCHANGED users
              ELSE /\ users' = f.users
                   /\ lastReg' = << [req |-> req, status |-> f.status, msg |-> f.msg,
                                     reached |-> TRUE, before |-> users,
                                     after |-> f.users] >>
  /\ UNCHANGED <<sessions, now, nextSession, lg, httpResp, lastAuth, likeVars, contentVars, rg, pc>>

RegisterSeqNext ==
  \E n \in UsernameArgs, e \in EmailArgs, pw \in RegPasswordArgs, a \in AvatarArgs,
     f \in RegisterFaults :
    RegisterUser(n, e, pw, a, f)

RegisterSeqSpec == Init /\ [][RegisterSeqNext]_vars

(***************************************************************************)
(* Concurrent registration spec: two goroutines run RegisterUser; the      *)
(* checks, the upload and the hash touch no table, the INSERT of           *)
(* CreateUser is the one statement.  lastReg remembers the INSERT just     *)
(* run.                                                                    *)
(***************************************************************************)
\* auth.go lines 19-139; a form that is rejected here is answered at once
\* and leaves nothing but, possibly, its avatar file
RegisterUserBegin(p, username, email, password, avatar, fault) ==
  /\ pc[p] = "idle"
  /\ files < MaxFiles
  /\ LET c == RegisterCheck(username, email, password, avatar, fault)
     IN  /\ files' = files + c.file
         /\ IF c.status # 0
              THEN UNCHANGED <<pc, rg>>
              ELSE /\ pc' = [pc EXCEPT ![p] = "reg_create"]
                   /\ rg' = [rg EXCEPT ![p] =
                               [username |-> username, email |-> email,
                                password_hash |-> c.password_hash,
                                avatar_url |-> c.avatar_url]]
  /\ UNCHANGED <<users, sessions, now, nextSession, lg, httpResp, lastAuth, likeVars, contentVars,
                 lastReg>>

\* auth.go lines 141-152
RegisterUserCreate(p, execFails) ==
  /\ pc[p] = "reg_create"
  /\ LET f == RegisterFinish(users, rg[p].username, rg[p].email, rg[p].password_hash,
                             rg[p].avatar_url, execFails)
     IN  /\ users' = f.users
         /\ lastReg' = << [req |-> [username |-> rg[p].username, email |-> rg[p].email,
                                   fault |-> IF execFails THEN "exec" ELSE "none"],
                           status |-> f.status, msg |-> f.msg, reached |-> TRUE,
                           before |-> users, after |-> f.users] >>
  /\ pc' = [pc EXCEPT ![p] = "idle"]
  /\ rg' = [rg EXCEPT ![p] = NoReg]
  /\ UNCHANGED <<sessions, now, nextSession, lg, httpResp, lastAuth, likeVars, contentVars, files>>

RegisterConcNext ==
  \/ \E p \in Procs, n \in UsernameArgs \cup {"dave"},
        e \in EmailArgs \cup {"dave@forum.io"}, pw \in {"Secret#1", "weak"},
        a \in {"none", "image/png", "text/plain"}, f \in {"none", "hash"} :
       RegisterUserBegin(p, n, e, pw, a, f)
  \/ \E p \in Procs, xf \in BOOLEAN : RegisterUserCreate(p, xf)

RegisterConcSpec == Init /\ [][RegisterConcNext]_vars

\* C16: an INSERT of CreateUser for a username or an e-mail that a row of
\* users already has is answered 409 "Username or email already exists"
\* (500 when the store fails the statement as such) and leaves the table
\* as it was; in every reachable state, two goroutines registering at once
\* included, no two rows of users share a username or an e-mail.
C16_UniqueIdentities ==
  /\ \A u1 \in users, u2 \in users :
       (u1.username = u2.username \/ u1.email = u2.email) => u1 = u2
  /\ \A k \in DOMAIN lastReg :
       LET e == lastReg[k]
       IN  (\E u \in e.before : u.username = e.req.username \/ u.email = e.req.email)
           => /\ e.after = e.before
              /\ e.req.fault = "none" =>
                   <<e.status, e.msg>> = <<409, "Username or email already exists">>
              /\ e.req.fault # "none" => e.status = 500

\* C16 witness: an INSERT for the username carol with an e-mail nobody has
\* was answered 409 because carol had been registered during the run
C16_Witness ==
  \E k \in DOMAIN lastReg :
    /\ lastReg[k].status = 409
    /\ lastReg[k].req.username = "carol"
    /\ \A u \in users : u.email # lastReg[k].req.email
    /\ Cardinality(users) = 3

\* the form fails validation: a field is missing, the username or the
\* e-mail is malformed, the password is weak, or there is an avatar whose
\* content is not a JPEG, PNG or GIF image
FailsValidation(req) ==
  \/ req.username = "" \/ req.email = "" \/ req.password = ""
  \/ ~ValidUsername(req.username)
  \/ ~ValidEmail(req.email)
  \/ ~ValidPassword(req.password)
  \/ req.avatar \notin ImageTypes \cup {"none"}

\* the form fails one of the checks made on its text fields
FailsFieldChecks(req) == FailsValidation([req EXCEPT !.avatar = "none"])

LoginRequests == [email : EmailArgs, username : UsernameArgs, password : PasswordArgs]

\* the request supplies one identifier, well-formed, and a password
OneIdentifier(req) ==
  /\ req.password # ""
  /\ (req.email = "") # (req.username = "")
  /\ req.email # "" => ValidEmail(req.email)
  /\ req.username # "" => ValidUsername(req.username)

\* the users the request's identifier names
Named(us, req) == {u \in us : u.email = req.email \/ u.username = req.username}

\* a request naming an identity that does not exist
UnknownIdentity(us, req) == OneIdentifier(req) /\ Named(us, req) = {}

\* a request naming an existing identity with a password that is not its own
WrongPassword(us, req) ==
  /\ OneIdentifier(req)
  /\ Named(us, req) # {}
  /\ \A u \in Named(us, req) : ~CheckPasswordHash(req.password, u.password_hash)

\* the users whose stored hash the request's password verifies against,
\* among those its identifier resolves to (the e-mail when there is one)
Verified(us, req) ==
  {u \in (IF req.email # "" THEN GetUserByEmail(us, req.email)
                            ELSE GetUserByUsername(us, req.username)) :
     CheckPasswordHash(req.password, u.password_hash)}

\* C11: a login naming an identity that does not exist and a login naming
\* an existing identity with a wrong password (identifier well-formed,
\* password non-empty) get the same answer, which is 401 "Invalid
\* credentials" whenever the store answers the lookup; neither sets a cookie
\* nor creates a session row.
C11_SameInvalidCredentials ==
  /\ \A lf \in BOOLEAN :
       LET answers(kind(_, _)) ==
             {LoginCheck(users, r.email, r.username, r.password, lf) :
                r \in {q \in LoginRequests : kind(users, q)}}
           all == answers(UnknownIdentity) \cup answers(WrongPassword)
       IN  /\ Cardinality(all) <= 1
           /\ ~lf => \A a \in all : a.status = 401 /\ a.msg = "Invalid credentials"
  /\ \A k \in DOMAIN lastAuth :
       LET e == lastAuth[k]
       IN  ( /\ e.op = "login"
             /\ UnknownIdentity(users, e.req) \/ WrongPassword(users, e.req) )
           => /\ <<e.status, e.msg>> \in {<<401, "Invalid credentials">>,
                                          <<500, "Database error">>}
              /\ e.cookie = {}
              /\ sessions = e.before

\* C11 witness: a wrong password for an existing user was answered 401 while
\* somebody was logged in
C11_Witness ==
  \E k \in DOMAIN lastAuth :
    /\ lastAuth[k].op = "login"
    /\ WrongPassword(users, lastAuth[k].req)
    /\ lastAuth[k].status = 401
    /\ sessions # {}

\* C12: LoginUser answers 200, creates a session row and sets the cookie
\* only if the password verifies against the stored hash of the user the
\* identifier resolves to; the row and the cookie are that user's, and a
\* login whose password check failed adds no row to the sessions table.
C12_SessionOnlyIfPasswordVerifies ==
  \A k \in DOMAIN lastAuth :
    LET e == lastAuth[k]
        created == sessions \ e.before
    IN  e.op = "login" =>
          /\ (e.status = 200 \/ e.cookie # {} \/ created # {}) =>
                /\ e.status = 200
                /\ \E u \in Verified(users, e.req) : u.id = e.user
                /\ \A t \in e.cookie : GetUserIDFromSession(sessions, t) = e.user
                /\ \A r \in created : r.user_id = e.user /\ r.id \in e.cookie
          /\ e.status = 200 => (e.cookie # {} /\ created # {})
          /\ Verified(users, e.req) = {} => (sessions = e.before /\ e.cookie = {})

\* C12 witness: a login succeeded while the other user held a session
C12_Witness ==
  \E k \in DOMAIN lastAuth :
    /\ lastAuth[k].op = "login"
    /\ lastAuth[k].status = 200
    /\ \E r \in lastAuth[k].before : r.user_id # lastAuth[k].user

\* C13: a login with an empty password, or with both e-mail and username
\* empty, is answered 400 with the message of that check, whether or not
\* the store would have answered a lookup, and sets no cookie; the sessions
\* table is as before (no step of this specification writes users).
C13_EmptyFieldsRejectedFirst ==
  \A k \in DOMAIN lastAuth :
    LET e == lastAuth[k]
    IN  e.op = "login" =>
          /\ e.req.password = "" =>
                /\ <<e.status, e.msg>> = <<400, "Password cannot be empty">>
                /\ e.cookie = {}
                /\ sessions = e.before
          /\ (e.req.password # "" /\ e.req.email = "" /\ e.req.username = "") =>
                /\ <<e.status, e.msg>> = <<400, "Email or username is required">>
                /\ e.cookie = {}
                /\ sessions = e.before

\* C13 witness: a login without identifiers was rejected while a session
\* existed
C13_Witness ==
  \E k \in DOMAIN lastAuth :
    /\ lastAuth[k].op = "login"
    /\ lastAuth[k].req.password # ""
    /\ lastAuth[k].req.email = ""
    /\ lastAuth[k].req.username = ""
    /\ sessions # {}

\* C14 as claimed: a login that supplies both a non-empty e-mail and a
\* non-empty username is not processed as a normal login: it is answered
\* 400 and touches no session.
C14_ExactlyOneIdentifier ==
  \A k \in DOMAIN lastAuth :
    LET e == lastAuth[k]
    IN  (e.op = "login" /\ e.req.email # "" /\ e.req.username # "") =>
          (e.status = 400 /\ sessions = e.before)

\* C14 amended: LoginUser requires at least one identifier; when both are
\* supplied the request is processed as the login by e-mail alone, the
\* username being neither validated nor looked up: LoginCheck returns what
\* it returns for the same request without the username, and a successful
\* login is the login of the user who has the e-mail.
C14_EmailTakesPrecedence ==
  /\ \A r \in LoginRequests, lf \in BOOLEAN :
       (r.email # "" /\ r.username # "") =>
         LoginCheck(users, r.email, r.username, r.password, lf)
           = LoginCheck(users, r.email, "", r.password, lf)
  /\ \A k \in DOMAIN lastAuth :
       LET e == lastAuth[k]
       IN  ( /\ e.op = "login"
             /\ e.req.email # ""
             /\ e.req.username # ""
             /\ e.status = 200 )
           => \E u \in GetUserByEmail(users, e.req.email) : u.id = e.user

\* C14 witness: a login with alice's e-mail and bob's username logged alice in
C14_Witness ==
  \E k \in DOMAIN lastAuth :
    /\ lastAuth[k].op = "login"
    /\ lastAuth[k].status = 200
    /\ lastAuth[k].req.email # ""
    /\ GetUserByUsername(users, lastAuth[k].req.username) # {}
    /\ \A u \in GetUserByUsername(users, lastAuth[k].req.username) :
         u.id # lastAuth[k].user

\* C15: LogoutUser is idempotent.  Without a cookie it answers 200 and
\* leaves the table alone.  With token t, unless the store fails the DELETE
\* (then 500 and the table as before), it answers 200 also when t has no row,
\* removes exactly the rows with id t, and t resolves to no user afterwards.
\* A logout repeated with the same cookie leaves the table the first left.
C15_LogoutIdempotent ==
  \A k \in DOMAIN lastAuth :
    LET e == lastAuth[k]
    IN  e.op = "logout" =>
          /\ e.cookie = {} => (e.status = 200 /\ sessions = e.before)
          /\ (e.cookie # {} /\ ~e.req.fault) =>
                /\ e.status = 200
                /\ \A t \in e.cookie : GetUserIDFromSession(sessions, t) = ""
                /\ sessions = {r \in e.before : r.id \notin e.cookie}
          /\ e.req.fault => (e.status = 500 /\ sessions = e.before)
          /\ (e.req.repeat /\ e.status = 200) => sessions = e.before

\* C15 witness: the logout of a token was repeated while another session
\* stayed in the table
C15_Witness ==
  \E k \in DOMAIN lastAuth :
    /\ lastAuth[k].op = "logout"
    /\ lastAuth[k].req.repeat
    /\ lastAuth[k].status = 200
    /\ lastAuth[k].cookie # {}
    /\ \A t \in lastAuth[k].cookie : t < nextSession
    /\ sessions # {}

\* C18: RequireAuth and GetUser admit a request only if its cookie's token
\* has a row in the sessions table at that moment, and then as the row's
\* user; a request without cookie or whose token has no row (never issued,
\* or removed by logout, a later login or the purge) is answered 401.
C18_AdmitOnlyWithSessionRow ==
  \A k \in DOMAIN lastAuth :
    LET e == lastAuth[k]
        admitted == \/ e.op = "requireauth" /\ e.status = 0
                    \/ e.op = "getuser" /\ e.status = 200
        rows == {r \in sessions : r.id \in e.cookie}
    IN  e.op \in {"requireauth", "getuser"} =>
          /\ admitted => \E r \in rows : r.user_id = e.user
          /\ rows = {} => e.status = 401
          /\ (e.op = "requireauth" /\ ~admitted) => e.status = 401

\* C18 witness: a token that was issued and has no row any more was refused
\* while a later session is in the table
C18_Witness ==
  \E k \in DOMAIN lastAuth :
    /\ lastAuth[k].op \in {"requireauth", "getuser"}
    /\ lastAuth[k].cookie = {1}
    /\ lastAuth[k].status = 401
    /\ \E r \in sessions : r.id = 2

\* C19: a session whose age, measured from created_at, exceeds the
\* configured maximum age does not resolve to a user, whether or not
\* CleanupSessions has run since.
C19_ExpiredSessionsDoNotResolve ==
  \A h \in ExpiryArgs : \A r \in sessions :
    now - r.created_at > h => GetUserIDFromSession(sessions, r.id) = ""

\* C20: a CleanupSessions(expiryHours) call that returned nil removed every
\* session whose created_at is at or before now minus expiryHours, now being
\* the time of the call, and no session created after that cutoff.
C20_CleanupRemovesExactlyExpired ==
  \A k \in DOMAIN lastAuth :
    LET e == lastAuth[k]
    IN  (e.op = "cleanup" /\ e.status = 0) =>
          sessions = {r \in e.before : r.created_at > e.req.at - e.req.hours}

(***************************************************************************)
(* Category resolver, one call at a time.  lastC remembers the call just   *)
(* completed: its arguments, what it returned and the tables before it.    *)
(***************************************************************************)
\* number of rows the categories table may hold when a call starts
MaxCategories == 3

GetOrCreateCategoryIDs(names, fault) ==
  /\ Len(db.categories) < MaxCategories
  /\ LET r == GetOrCreateCategoryIDsResult(db, names, fault)
     IN  /\ db' = r.db
         /\ lastC' = << [op |-> "resolve", req |-> [names |-> names],
                         ids |-> r.ids, err |-> r.err, before |-> db] >>
  /\ UNCHANGED <<gc, authVars, likeVars, hostVars, regVars, pc>>

\* lines 627-643: GetCategories, SELECT id, name FROM categories
GetCategoriesResult(d, queryFails) ==
  IF queryFails
    THEN [categories |-> <<>>, err |-> ErrDB]
    ELSE [categories |-> d.categories, err |-> "nil"]

GetCategories(queryFails) ==
  /\ LET r == GetCategoriesResult(db, queryFails)
     IN  lastC' = << [op |-> "categories", req |-> <<>>,
                      categories |-> r.categories, err |-> r.err, before |-> db] >>
  /\ UNCHANGED <<db, gc, authVars, likeVars, hostVars, regVars, pc>>

\* the id lists category names are asked for: empty, one id, ids in
\* descending order, a repeated id, all three ids, an id of no category
NameIDLists == {<<>>, <<1>>, <<2, 1>>, <<1, 1>>, <<3, 1, 2>>, <<4>>}

\* queries.go lines 646-676: GetCategoryNamesByIDs called with a list of ids;
\* a failing query returns nil and the error
NamesForIDs(categoryIDs, queryFails) ==
  /\ LET failed == queryFails /\ Len(categoryIDs) # 0
     IN  lastC' = << [op |-> "names", req |-> [ids |-> categoryIDs, fault |-> queryFails],
                      names |-> IF failed THEN <<>>
                                ELSE GetCategoryNamesByIDs(db, categoryIDs),
                      err |-> IF failed THEN ErrDB ELSE "nil", before |-> db] >>
  /\ UNCHANGED <<db, gc, authVars, likeVars, hostVars, regVars, pc>>

CategorySeqNext ==
  \/ \E names \in NameLists, fault \in CategoryFaults :
       GetOrCreateCategoryIDs(names, fault)
  \/ \E qf \in BOOLEAN : GetCategories(qf)
  \/ \E ids \in NameIDLists, qf \in BOOLEAN : NamesForIDs(ids, qf)

CategorySeqSpec == Init /\ [][CategorySeqNext]_vars

\* the names of a table of categories
NamesOf(cats) == {c.name : c \in Rows(cats)}

\* C21: when GetOrCreateCategoryIDs(names) succeeds, the result is as long
\* as names and its i-th element is the id of the category named names[i];
\* a name that existed before the call keeps its id and gets no new row;
\* every name that did not exist has a row afterwards (and those are the
\* only rows added).
C21_ResolveOrCreate ==
  \A e \in Rows(lastC) :
    (e.op = "resolve" /\ e.err = "nil") =>
      LET names == e.req.names
          old == e.before.categories
      IN  /\ Len(e.ids) = Len(names)
          /\ \A i \in DOMAIN names :
               /\ \E c \in Rows(db.categories) : c.name = names[i] /\ c.id = e.ids[i]
               /\ Cardinality({j \in DOMAIN db.categories :
                                 db.categories[j].name = names[i]}) = 1
               /\ names[i] \in NamesOf(old) =>
                    \E c \in Rows(old) : c.name = names[i] /\ c.id = e.ids[i]
          /\ Rows(old) \subseteq Rows(db.categories)
          /\ NamesOf(db.categories) = NamesOf(old) \cup {names[i] : i \in DOMAIN names}
          /\ Len(db.categories) = Cardinality(NamesOf(db.categories))

\* a call resolved an existing name and a new one, in that order of ids
C21_Witness ==
  \E e \in Rows(lastC) :
    /\ e.op = "resolve" /\ e.err = "nil"
    /\ e.req.names = <<"news", "tech">>
    /\ NamesOf(e.before.categories) = {"tech"}
    /\ e.ids = <<2, 1>>

(***************************************************************************)
(* Category resolver, two goroutines, statement by statement: the SELECT   *)
(* and the INSERT of one name are two statements of the store.             *)
(***************************************************************************)
\* line 250: the call is entered; an empty list returns at once
GetOrCreateCategoryIDsBegin(p, names) ==
  /\ pc[p] = "idle"
  /\ Len(db.categories) < MaxCategories
  /\ gc' = [gc EXCEPT ![p] = [names |-> names, i |-> 1, ids |-> <<>>,
                              err |-> IF names = <<>> THEN "nil" ELSE "",
                              cause |-> "", done |-> names = <<>>]]
  /\ pc' = [pc EXCEPT ![p] = IF names = <<>> THEN "idle" ELSE "gc_select"]
  /\ UNCHANGED <<db, lastC, authVars, likeVars, hostVars, regVars>>

\* the call of goroutine p after the id of its i-th name is known
ResolveAdvance(p, id) ==
  LET g == gc[p]
      last_ == g.i = Len(g.names)
  IN  /\ gc' = [gc EXCEPT ![p] = [g EXCEPT !.ids = Append(@, id), !.i = @ + 1,
                                            !.err = IF last_ THEN "nil" ELSE "",
                                            !.done = last_]]
      /\ pc' = [pc EXCEPT ![p] = IF last_ THEN "idle" ELSE "gc_select"]

\* the call of goroutine p returns nil, err
ResolveFail(p, err, cause) ==
  /\ gc' = [gc EXCEPT ![p] = [@ EXCEPT !.ids = <<>>, !.err = err,
                                        !.cause = cause, !.done = TRUE]]
  /\ pc' = [pc EXCEPT ![p] = "idle"]

\* line 252: the SELECT of the i-th name
GetOrCreateCategoryIDsSelect(p, selectFails) ==
  /\ pc[p] = "gc_select"
  /\ LET q == CategoryIDByName(db, gc[p].names[gc[p].i], selectFails)
     IN  IF q.err = "nil" THEN ResolveAdvance(p, q.id)
         ELSE IF q.err = "ErrNoRows"
           THEN /\ pc' = [pc EXCEPT ![p] = "gc_insert"]
                /\ UNCHANGED gc
         ELSE ResolveFail(p, ErrFetchCategory, q.err)
  /\ UNCHANGED <<db, lastC, authVars, likeVars, hostVars, regVars>>

\* line 256: the INSERT of the i-th name, which the SELECT did not find
GetOrCreateCategoryIDsInsert(p, insertFails) ==
  /\ pc[p] = "gc_insert"
  /\ LET c == InsertCategory(db, gc[p].names[gc[p].i], insertFails)
     IN  IF c.err = "nil"
           THEN /\ db' = c.db
                /\ ResolveAdvance(p, c.id)
           ELSE /\ ResolveFail(p, ErrCreateCategory, c.err)
                /\ UNCHANGED db
  /\ UNCHANGED <<lastC, authVars, likeVars, hostVars, regVars>>

CategoryConcNext ==
  \/ \E p \in Procs, names \in NameLists : GetOrCreateCategoryIDsBegin(p, names)
  \/ \E p \in Procs, sf \in BOOLEAN : GetOrCreateCategoryIDsSelect(p, sf)
  \/ \E p \in Procs, xf \in BOOLEAN : GetOrCreateCategoryIDsInsert(p, xf)

CategoryConcSpec == Init /\ [][CategoryConcNext]_vars

MaxPosts == 2

\* what a caller passes to CreatePost
PostRequests ==
  { [user |-> "u1", title |-> "A", content |-> "a", image_url |-> ""],
    [user |-> "u2", title |-> "B", content |-> "b", image_url |-> "/static/b.png"] }
CategoryIDLists == {<<>>, <<1>>, <<2, 1>>, <<1, 1>>}
PostFaults ==
  {NoFault, [at |-> 0, stmt |-> "post"]}
    \cup {[at |-> k, stmt |-> "category"] : k \in 1..2}

CreatePost(userID, categoryIDs, title, content, imageURL, fault) ==
  /\ LET r == CreatePostResult(db, userID, categoryIDs, title, content, imageURL, fault)
     IN  /\ db' = r.db
         /\ lastC' = << [op |-> "createpost",
                         req |-> [user |-> userID, categoryIDs |-> categoryIDs,
                                  title |-> title, content |-> content,
                                  image_url |-> imageURL, fault |-> fault],
                         post |-> r.post, err |-> r.err, before |-> db] >>
  /\ UNCHANGED <<gc, authVars, likeVars, hostVars, regVars, pc>>

GetPost(postID, fault) ==
  /\ LET r == GetPostResult(db, postID, fault)
     IN  lastC' = << [op |-> "getpost", req |-> [id |-> postID, fault |-> fault],
                      post |-> r.post, err |-> r.err, before |-> db] >>
  /\ UNCHANGED <<db, gc, authVars, likeVars, hostVars, regVars, pc>>

GetPosts(page, limit, ties, fault) ==
  /\ LET r == GetPostsResult(db, users, page, limit, ties, fault)
     IN  lastC' = << [op |-> "getposts",
                      req |-> [page |-> page, limit |-> limit, ties |-> ties],
                      posts |-> r.posts, err |-> r.err, before |-> db] >>
  /\ UNCHANGED <<db, gc, authVars, likeVars, hostVars, regVars, pc>>

DeletePost(postID, execFails) ==
  /\ LET r == DeletePostResult(db, likes, postID, execFails)
     IN  /\ db' = r.db
         /\ likes' = r.likes
         /\ lastC' = << [op |-> "deletepost", req |-> [id |-> postID],
                         err |-> r.err, before |-> db, after |-> r.db,
                         likesBefore |-> likes, likesAfter |-> r.likes] >>
  /\ UNCHANGED <<gc, authVars, ncalls, last, tl, tlErr, episode, hostVars, regVars, pc>>

PostsSeqNext ==
  \/ GetOrCreateCategoryIDs(<<"tech", "news">>, NoFault)
  \/ /\ db.next.posts <= MaxPosts
     /\ \E q \in PostRequests, ids \in CategoryIDLists, fault \in PostFaults :
          CreatePost(q.user, ids, q.title, q.content, q.image_url, fault)
  \/ \E id \in 1..MaxPosts, fault \in {"none", "post", "categories", "names"} :
       GetPost(id, fault)
  \/ \E ties \in TieOrders, fault \in {"none", "posts"} :
       GetPosts(1, MaxPosts, ties, fault)
  \/ \E id \in 1..MaxPosts, xf \in BOOLEAN : DeletePost(id, xf)

PostsSeqSpec == Init /\ [][PostsSeqNext]_vars

\* how often x occurs in the sequence s; the set of its elements
Occurrences(s, x) == Cardinality({k \in DOMAIN s : s[k] = x})
Elements(s) == {s[k] : k \in DOMAIN s}

\* the post_categories rows of a post, as the list of their category ids
AssociationsOf(d, postID) == CategoryIDsOfPost(d, postID)

\* C23: when CreatePost succeeds, exactly one new post row exists, with the
\* given author, title, content and image URL; the post has one association
\* row for each category id passed in (as many rows of an id as the list
\* holds it) and the other posts' rows are as before; the returned post's
\* CategoryIDs is the input list; GetPost on the returned id yields the same
\* author, title, content and set of category ids.
C23_CreatePostStoresPost ==
  \A e \in Rows(lastC) :
    (e.op = "createpost" /\ e.err = "nil") =>
      LET id == e.post.id
          g == GetPostResult(db, id, "none")
      IN  /\ \A p \in Rows(e.before.posts) : p.id # id
          /\ db.posts = Append(e.before.posts,
                               [id |-> id, user_id |-> e.req.user,
                                title |-> e.req.title, content |-> e.req.content,
                                image_url |-> e.req.image_url,
                                created_at |-> e.post.created_at])
          /\ Len(db.post_categories)
               = Len(e.before.post_categories) + Len(e.req.categoryIDs)
          /\ \A c \in 1..MaxCategories :
               Occurrences(AssociationsOf(db, id), c) = Occurrences(e.req.categoryIDs, c)
          /\ \A p \in Rows(e.before.posts) :
               AssociationsOf(db, p.id) = AssociationsOf(e.before, p.id)
          /\ e.post.category_ids = e.req.categoryIDs
          /\ g.err = "nil"
          /\ g.post.id = id
          /\ g.post.user_id = e.req.user
          /\ g.post.title = e.req.title
          /\ g.post.content = e.req.content
          /\ Elements(g.post.category_ids) = Elements(e.req.categoryIDs)

\* a second post was created with two categories
C23_Witness ==
  \E e \in Rows(lastC) :
    /\ e.op = "createpost" /\ e.err = "nil"
    /\ e.req.categoryIDs = <<2, 1>>
    /\ e.before.posts # <<>>
    /\ e.post.id = 2

\* the first association insert of a CreatePost call that fails: the store
\* fails it, or it names a category that does not exist (0: none fails)
FirstFailing(e) ==
  LET ids == e.req.categoryIDs
      Fails(k) == \/ e.req.fault.stmt = "category" /\ e.req.fault.at = k
                  \/ \A c \in Rows(e.before.categories) : c.id # ids[k]
      bad == {k \in DOMAIN ids : Fails(k)}
  IN  IF bad = {} THEN 0 ELSE CHOOSE k \in bad : \A j \in bad : k <= j

\* C24: if the k-th association insert of CreatePost fails, CreatePost
\* returns an error while the post row and the first k-1 association rows
\* stay in the store; the post with the incomplete category set is what
\* GetPost and GetPosts then show.
C24_PartialPostStays ==
  \A e \in Rows(lastC) :
    (e.op = "createpost" /\ e.req.fault.stmt # "post" /\ FirstFailing(e) > 0) =>
      LET k == FirstFailing(e)
          id == e.post.id
          kept == SubSeq(e.req.categoryIDs, 1, k - 1)
          g == GetPostResult(db, id, "none")
          Listed(ties) ==
            LET l == GetPostsResult(db, users, 1, Len(db.posts), ties, "none")
            IN  /\ l.err = "nil"
                /\ \E n \in DOMAIN l.posts :
                     l.posts[n].id = id /\ l.posts[n].category_ids = kept
      IN  /\ e.err = ErrAssociate
          /\ \E p \in Rows(db.posts) : p.id = id /\ p.title = e.req.title
          /\ Len(db.posts) = Len(e.before.posts) + 1
          /\ AssociationsOf(db, id) = kept
          /\ g.err = "nil" /\ g.post.category_ids = kept
          /\ \A ties \in TieOrders : Listed(ties)

\* the second of two association inserts failed: the post is stored with
\* the first category only
C24_Witness ==
  \E e \in Rows(lastC) :
    /\ e.op = "createpost" /\ e.err = ErrAssociate
    /\ e.req.categoryIDs = <<2, 1>>
    /\ FirstFailing(e) = 2
    /\ AssociationsOf(db, e.post.id) = <<2>>
    /\ GetPostResult(db, e.post.id, "none").post.category_ids = <<2>>

MaxPagePosts == 3
\* pages asked for are 0..MaxPage, page sizes 1..MaxLimit
MaxPage == 3
MaxLimit == 2

\* a listing has been observed: the run ends with it, so that each listing is
\* checked in the state it was made in and every state is still listed
Observed == \E e \in Rows(lastC) : e.op \in {"getposts", "liked", "getcomments"}

PagesSeqNext ==
  \/ /\ db.next.posts <= MaxPagePosts
     /\ \E q \in PostRequests : CreatePost(q.user, <<>>, q.title, q.content, q.image_url, NoFault)
  \/ \E page \in 0..MaxPage, limit \in 1..MaxLimit, ties \in TieOrders,
        fault \in {"none", "posts"} :
       /\ ~Observed
       /\ GetPosts(page, limit, ties, fault)
  \/ \E id \in 1..MaxPagePosts : DeletePost(id, FALSE)
  \/ /\ ~Observed
     /\ Tick

PagesSeqSpec == Init /\ [][PagesSeqNext]_vars

\* the ids of a sequence of posts
IDs(posts) == [k \in DOMAIN posts |-> posts[k].id]

\* the pages 1..n of page size limit, one after the other
RECURSIVE PagesUpTo(_, _, _, _)
PagesUpTo(d, n, limit, ties) ==
  IF n = 0
    THEN <<>>
    ELSE PagesUpTo(d, n - 1, limit, ties)
           \o GetPostsResult(d, users, n, limit, ties, "none").posts

GetPostsLikedByUser(userID, page, limit, path, fault) ==
  /\ LET r == GetPostsLikedByUserResult(db, users, likes, userID, page, limit, path, fault)
     IN  lastC' = << [op |-> "liked",
                      req |-> [user |-> userID, page |-> page, limit |-> limit,
                               path |-> path],
                      posts |-> r.posts, err |-> r.err, before |-> db,
                      likesBefore |-> likes] >>
  /\ UNCHANGED <<db, gc, authVars, likeVars, hostVars, regVars, pc>>

\* number of ToggleLike calls before a list of liked posts is read
MaxLikedCalls == 4

\* the reactions of the run: u1 likes and dislikes post 1 and likes post 2,
\* u2 likes post 1
LikedToggles ==
  { [user |-> "u1", post |-> 1, type |-> "like"],
    [user |-> "u1", post |-> 1, type |-> "dislike"],
    [user |-> "u1", post |-> 2, type |-> "like"],
    [user |-> "u2", post |-> 1, type |-> "like"] }

\* the posts are created first, by one author at one time; then users react
\* while the clock runs and the list of u1 is read
LikedSeqNext ==
  \/ /\ db.next.posts <= MaxPosts
     /\ \E q \in PostRequests :
          /\ q.user = "u2"
          /\ CreatePost(q.user, <<>>, q.title, q.content, q.image_url, NoFault)
  \/ /\ db.next.posts > MaxPosts
     /\ ncalls < MaxLikedCalls
     /\ ~Observed
     /\ \E c \in LikedToggles : ToggleLike(c.user, {c.post}, {}, c.type, "none")
  \/ \E page \in {1, 2}, limit \in 1..MaxLimit, path \in LikedPaths :
       /\ ~Observed
       /\ GetPostsLikedByUser("u1", page, limit, path, "none")
  \/ /\ db.next.posts > MaxPosts
     /\ ~Observed
     /\ Tick

LikedSeqSpec == Init /\ [][LikedSeqNext]_vars

\* the pages 1..n of the posts userID has liked, one after the other
RECURSIVE LikedPagesUpTo(_, _, _, _, _, _)
LikedPagesUpTo(d, l, userID, n, limit, path) ==
  IF n = 0
    THEN <<>>
    ELSE LikedPagesUpTo(d, l, userID, n - 1, limit, path)
           \o GetPostsLikedByUserResult(d, users, l, userID, n, limit, path, "none").posts

\* when userID's reaction on the post was created
LikedAt(l, userID, postID) ==
  l[CHOOSE i \in PairRows(l, userID, {postID}, {}) : TRUE].created_at

\* C26: with the ToggleLike calls run one at a time, a post is among the
\* posts GetPostsLikedByUser(u) returns over all pages if and only if u's
\* reaction state on it is Liked (not after a toggle-off, not after a switch
\* to dislike); each such post appears exactly once, and a post whose
\* reaction was created later comes before one whose reaction was created
\* earlier; each page is its slice of that list.
C26_LikedListMatchesStates ==
  \A e \in Rows(lastC) :
    (e.op = "liked" /\ e.err = "nil") =>
      LET d == e.before
          l == e.likesBefore
          u == e.req.user
          n == Len(d.posts)
          all == LikedPagesUpTo(d, l, u, n + 1, e.req.limit, e.req.path)
          lo == (e.req.page - 1) * e.req.limit + 1
          hi == IF e.req.page * e.req.limit > Len(all) THEN Len(all)
                ELSE e.req.page * e.req.limit
      IN  /\ \A p \in Rows(d.posts) :
               Occurrences(IDs(all), p.id)
                 = IF PairState(l, u, {p.id}, {}) = "Liked" THEN 1 ELSE 0
          /\ \A k \in DOMAIN all : \E p \in Rows(d.posts) : p.id = all[k].id
          /\ \A i, j \in DOMAIN all :
               LikedAt(l, u, all[i].id) > LikedAt(l, u, all[j].id) => i < j
          /\ IDs(e.posts) = SubSeq(IDs(all), lo, hi)

\* u1 liked post 1, later liked post 2 and then switched post 1 to dislike,
\* while u2 likes post 1: only post 2 is listed for u1
C26_Witness ==
  \E e \in Rows(lastC) :
    /\ e.op = "liked" /\ e.err = "nil" /\ e.req.user = "u1" /\ e.req.page = 1
    /\ PairState(e.likesBefore, "u1", {1}, {}) = "Disliked"
    /\ PairState(e.likesBefore, "u1", {2}, {}) = "Liked"
    /\ LikedAt(e.likesBefore, "u1", 2) > LikedAt(e.likesBefore, "u1", 1)
    /\ IDs(e.posts) = <<2>>

(***************************************************************************)
(* Comments and replies, one call at a time, while the clock runs.         *)
(***************************************************************************)
\* number of comments and of replies created in a run
MaxComments == 2
MaxReplies == 2

CreateComment(userID, postID, content, insertFails) ==
  /\ db.next.comments <= MaxComments
  /\ LET r == CreateCommentResult(db, userID, postID, content, insertFails)
     IN  /\ db' = r.db
         /\ lastC' = << [op |-> "createcomment",
                         req |-> [user |-> userID, post |-> postID, content |-> content],
                         comment |-> r.comment, err |-> r.err, before |-> db] >>
  /\ UNCHANGED <<gc, authVars, likeVars, hostVars, regVars, pc>>

CreateReplyComment(userID, parentCommentID, content, insertFails) ==
  /\ db.next.replycomments <= MaxReplies
  /\ LET r == CreateReplyCommentResult(db, userID, parentCommentID, content, insertFails)
     IN  /\ db' = r.db
         /\ lastC' = << [op |-> "createreply",
                         req |-> [user |-> userID, parent |-> parentCommentID,
                                  content |-> content],
                         reply |-> r.reply, err |-> r.err, before |-> db] >>
  /\ UNCHANGED <<gc, authVars, likeVars, hostVars, regVars, pc>>

GetPostComments(postID, ties, fault) ==
  /\ LET r == GetPostCommentsResult(db, users, postID, ties, fault)
     IN  lastC' = << [op |-> "getcomments", req |-> [post |-> postID, ties |-> ties],
                      comments |-> r.comments, err |-> r.err, before |-> db] >>
  /\ UNCHANGED <<db, gc, authVars, likeVars, hostVars, regVars, pc>>

DeleteComment(commentID, execFails) ==
  /\ LET r == DeleteCommentResult(db, likes, commentID, execFails)
     IN  /\ db' = r.db
         /\ likes' = r.likes
         /\ lastC' = << [op |-> "deletecomment", req |-> [id |-> commentID],
                         err |-> r.err, before |-> db, after |-> r.db,
                         likesBefore |-> likes, likesAfter |-> r.likes] >>
  /\ UNCHANGED <<gc, authVars, ncalls, last, tl, tlErr, episode, hostVars, regVars, pc>>

CommentsSeqNext ==
  \/ /\ db.next.posts <= MaxPosts
     /\ \E q \in PostRequests :
          /\ q.user = "u2"
          /\ CreatePost(q.user, <<>>, q.title, q.content, q.image_url, NoFault)
  \/ \E id \in {1, 2} : CreateComment("u1", id, "c", FALSE)
  \/ \E id \in {1, 2} : CreateReplyComment("u2", id, "r", FALSE)
  \/ \E id \in {1, 2}, ties \in TieOrders :
       /\ ~Observed
       /\ GetPostComments(id, ties, "none")
  \/ DeletePost(1, FALSE)
  \/ DeleteComment(1, FALSE)
  \/ /\ db.next.posts > MaxPosts
     /\ ~Observed
     /\ Tick

CommentsSeqSpec == Init /\ [][CommentsSeqNext]_vars

\* C27: GetPostComments(postID) returns exactly the top-level comments of
\* that post, each once, oldest first (a comment created earlier comes
\* before one created later); each returned comment carries exactly the
\* replies whose parent_comment_id is that comment, each once, oldest first;
\* a comment without replies carries an empty reply list.
C27_CommentsWithTheirReplies ==
  \A e \in Rows(lastC) :
    (e.op = "getcomments" /\ e.err = "nil") =>
      LET d == e.before
          cs == e.comments
      IN  /\ \A c \in Rows(d.comments) :
               Occurrences(IDs(cs), c.id) = IF c.post_id = e.req.post THEN 1 ELSE 0
          /\ \A k \in DOMAIN cs :
               /\ \E c \in Rows(d.comments) :
                    /\ c.id = cs[k].id /\ c.post_id = cs[k].post_id
                    /\ c.content = cs[k].content /\ c.user_id = cs[k].user_id
               /\ \A r \in Rows(d.replycomments) :
                    Occurrences(IDs(cs[k].replies), r.id)
                      = IF r.parent_comment_id = cs[k].id THEN 1 ELSE 0
               /\ \A n \in DOMAIN cs[k].replies :
                    cs[k].replies[n] \in Rows(JoinUsers(d.replycomments, users))
               /\ \A m, n \in DOMAIN cs[k].replies :
                    cs[k].replies[m].created_at < cs[k].replies[n].created_at => m < n
               /\ (\A r \in Rows(d.replycomments) : r.parent_comment_id # cs[k].id)
                    => cs[k].replies = <<>>
          /\ \A i, j \in DOMAIN cs : cs[i].created_at < cs[j].created_at => i < j

\* a post has two comments created at different times, the second with no
\* reply, the first with two replies, created at different times
C27_Witness ==
  \E e \in Rows(lastC) :
    /\ e.op = "getcomments" /\ e.err = "nil"
    /\ Len(e.comments) = 2
    /\ e.comments[1].created_at < e.comments[2].created_at
    /\ Len(e.comments[1].replies) = 2
    /\ e.comments[1].replies[1].created_at < e.comments[1].replies[2].created_at
    /\ e.comments[2].replies = <<>>

OrphanToggles ==
  { [user |-> "u1", post |-> {1}, comment |-> {}, type |-> "like"],
    [user |-> "u2", post |-> {1}, comment |-> {}, type |-> "dislike"],
    [user |-> "u1", post |-> {}, comment |-> {1}, type |-> "like"],
    [user |-> "u1", post |-> {}, comment |-> {1}, type |-> "dislike"] }

OrphansSeqNext ==
  \/ /\ db.next.posts <= MaxPostID
     /\ \E q \in PostRequests :
          /\ q.user = "u2"
          /\ CreatePost(q.user, <<>>, q.title, q.content, q.image_url, NoFault)
  \/ /\ db.next.comments <= MaxCommentID
     /\ \E id \in PostIDs : CreateComment("u1", id, "c", FALSE)
  \/ /\ ncalls < MaxCalls
     /\ \E c \in OrphanToggles : ToggleLike(c.user, c.post, c.comment, c.type, "none")
  \/ \E id \in PostIDs, xf \in BOOLEAN : DeletePost(id, xf)
  \/ \E id \in CommentIDs, xf \in BOOLEAN : DeleteComment(id, xf)

OrphansSeqSpec == Init /\ [][OrphansSeqNext]_vars

\* the target a deletion removed, as ToggleLike and CountLikesAndDislikes
\* name it
DeletedTarget(e) ==
  IF e.op = "deletepost" THEN <<{e.req.id}, {}>> ELSE <<{}, {e.req.id}>>

\* C30: DeletePost and DeleteComment leave the likes table unchanged: the
\* reaction rows of the deleted target remain, and CountLikesAndDislikes
\* for the deleted target returns the counts it returned before.
C30_DeletionKeepsReactions ==
  \A e \in Rows(lastC) :
    e.op \in {"deletepost", "deletecomment"} =>
      LET ta == DeletedTarget(e)
      IN  /\ e.likesAfter = e.likesBefore
          /\ CountLikesAndDislikes(e.likesAfter, ta[1], ta[2])
               = CountLikesAndDislikes(e.likesBefore, ta[1], ta[2])

\* a post with a like and a dislike was deleted: both rows remain and are
\* still counted
C30_Witness ==
  \E e \in Rows(lastC) :
    /\ e.op = "deletepost" /\ e.err = "nil"
    /\ \E p \in Rows(e.before.posts) : p.id = e.req.id
    /\ \A p \in Rows(e.after.posts) : p.id # e.req.id
    /\ LET n == CountLikesAndDislikes(e.likesAfter, {e.req.id}, {})
       IN  n.likes = 1 /\ n.dislikes = 1 /\ n.err = "nil"

(***************************************************************************)
(* Replies and their parent comments.                                      *)
(***************************************************************************)
\* the comment rows of d with the given id
CommentsWithID(d, id) == {i \in DOMAIN d.comments : d.comments[i].id = id}

OwnerArgs == {"u1", "u2", "u3", "u9", "not-a-uuid"}

\* auth.go lines 340-355: GetOwner
GetOwner(userId, lookupFails) ==
  /\ LET r == GetOwnerResult(users, userId, lookupFails)
     IN  lastAuth' = << [op |-> "getowner", req |-> [user_id |-> userId],
                         user |-> r.user, status |-> r.status, msg |-> r.msg,
                         cookie |-> {}, before |-> sessions, body |-> r.body] >>
  /\ UNCHANGED <<users, sessions, now, nextSession, lg, httpResp, likeVars, contentVars,
                 hostVars, regVars, pc>>

ProfileSeqNext ==
  \/ RegisterUser("carol", "carol@forum.io", "Secret#1", "none", "none")
  \/ \E e \in {"", "alice@forum.io", "carol@forum.io"}, n \in {"", "bob"},
        pw \in {"Secret#1", "Secret#2"} :
       LoginUser(e, n, pw, FALSE, FALSE, FALSE)
  \/ \E c \in CookieArgs : LogoutUser(c, FALSE)
  \/ \E c \in CookieArgs, qf \in BOOLEAN, lf \in BOOLEAN : GetUser(c, qf, lf)
  \/ \E id \in OwnerArgs, lf \in BOOLEAN : GetOwner(id, lf)

ProfileSeqSpec == Init /\ [][ProfileSeqNext]_vars

\* the plaintext passwords of the run
Plaintexts == PasswordArgs \cup RegPasswordArgs

Verifies(us, r) == LoginCheck(us, r.email, r.username, r.password, FALSE).status = 0

\* C33: a login whose credentials verify and whose DeleteAllUserSessions
\* fails, the user lookup and CreateSession being served, is answered 200
\* with a cookie naming a fresh session row of that user, and every session
\* row that was there before is still there.
C33_DeleteFailureDoesNotAbortLogin ==
  \A e \in Rows(lastAuth) :
    ( /\ e.op = "login" /\ Verifies(users, e.req)
      /\ e.req.deleteFails /\ ~e.req.lookupFails /\ ~e.req.createFails ) =>
      /\ e.status = 200 /\ e.msg = "Logged in"
      /\ Cardinality(e.cookie) = 1
      /\ \A t \in e.cookie :
           /\ \A r \in e.before : r.id # t
           /\ \E r \in sessions : r.id = t /\ r.user_id = e.user
           /\ sessions = e.before \cup {r \in sessions : r.id = t}

\* the user already had a session when the delete of her next login failed
C33_Witness ==
  \E e \in Rows(lastAuth) :
    /\ e.op = "login" /\ e.status = 200
    /\ e.req.deleteFails /\ ~e.req.createFails
    /\ \E r \in e.before : r.user_id = e.user /\ r \in sessions

(***************************************************************************)
(* Store failures in RegisterUser and LoginUser: registrations that reach  *)
(* CreateUser and logins that reach the user lookup, one request at a      *)
(* time.                                                                   *)
(***************************************************************************)
FailuresSeqNext ==
  \/ \E n \in {"bob", "carol"}, e \in {"alice@forum.io", "carol@forum.io"},
        f \in {"none", "exec"} :
       RegisterUser(n, e, "Secret#1", "none", f)
  \/ \E id \in FaultedLogins \cup {<<"", "carol">>}, pw \in {"Secret#1", "Secret#2"},
        lf \in BOOLEAN :
       LoginUser(id[1], id[2], pw, lf, FALSE, FALSE)

FailuresSeqSpec == Init /\ [][FailuresSeqNext]_vars

\* the request passes the field checks of lines 172-223, so that LoginUser
\* looks the user up
LookedUp(us, r) ==
  LoginCheck(us, r.email, r.username, r.password, FALSE).status \in {0, 401}

\* the username or the e-mail of the form is that of a stored user
Taken(us, r) == \E u \in us : u.username = r.username \/ u.email = r.email

\* C34: a registration whose CreateUser fails is answered 409 when the
\* failure is the uniqueness violation (a stored user has the username or
\* the e-mail) and 500 "Database error" when the store fails the INSERT for
\* another reason, and stores no user; a login whose user lookup fails for
\* another reason than no row is answered 500 "Database error", not 401,
\* sets no cookie and stores no session.
C34_StoreFailuresMapped ==
  /\ \A e \in Rows(lastReg) :
       e.reached =>
         /\ e.req.fault = "exec" =>
              e.status = 500 /\ e.msg = "Database error" /\ e.after = e.before
         /\ (e.req.fault # "exec" /\ Taken(e.before, e.req)) =>
              e.status = 409 /\ e.after = e.before
         /\ (e.req.fault # "exec" /\ ~Taken(e.before, e.req)) => e.status = 201
  /\ \A e \in Rows(lastAuth) :
       (e.op = "login" /\ e.req.lookupFails /\ LookedUp(users, e.req)) =>
         /\ e.status = 500 /\ e.msg = "Database error"
         /\ e.cookie = {} /\ sessions = e.before

\* a registration of a free name was answered 500, and the login with a
\* user's own credentials that followed was answered 500
C34_Witness ==
  /\ \E e \in Rows(lastReg) :
       e.reached /\ e.status = 500 /\ ~Taken(e.before, e.req)
  /\ \E e \in Rows(lastAuth) :
       /\ e.op = "login" /\ e.req.lookupFails /\ e.status = 500
       /\ Verifies(users, e.req)

(***************************************************************************)
(* Category names for a list of ids.                                       *)
(***************************************************************************)
\* the place of a name in ascending order
Rank(name) == CHOOSE k \in DOMAIN NamesAscending : NamesAscending[k] = name

\* the entries of ids that are the id of a category of d
EntriesNamingCategory(d, ids) ==
  {k \in DOMAIN ids : \E c \in Rows(d.categories) : c.id = ids[k]}

\* C36: GetCategoryNamesByIDs(ids) returns names in ascending order, as many
\* names as ids has entries that are the id of an existing category (a
\* repeated id counted once per occurrence), and for an empty ids an empty
\* list and no error even when the store would fail a query.
C36_NamesPerEntrySorted ==
  \A e \in Rows(lastC) :
    e.op = "names" =>
      /\ e.req.ids = <<>> => (e.names = <<>> /\ e.err = "nil")
      /\ e.err = "nil" =>
           /\ \A i, j \in DOMAIN e.names : i < j => Rank(e.names[i]) <= Rank(e.names[j])
           /\ Len(e.names) = Cardinality(EntriesNamingCategory(e.before, e.req.ids))

(***************************************************************************)
(* GetPost: a missing post and a failing category-name lookup.             *)
(***************************************************************************)
\* the posts rows of d with the given id
PostsWithID(d, id) == {p \in Rows(d.posts) : p.id = id}

\* C35: when the store serves the posts query and no posts row has the id,
\* GetPost returns the no-rows error and the zero post; when the post exists
\* and only the lookup of the category names fails, GetPost returns no error
\* and the post's row with the category ids of its post_categories rows and
\* an empty list of names.
C35_GetPostNotFoundAndBestEffortNames ==
  \A e \in Rows(lastC) :
    e.op = "getpost" =>
      /\ (e.req.fault # "post" /\ PostsWithID(e.before, e.req.id) = {}) =>
           /\ e.err = "ErrNoRows"
           /\ e.post = NoPost @@ [category_ids |-> <<>>, category_names |-> <<>>]
      /\ (e.req.fault = "names" /\ PostsWithID(e.before, e.req.id) # {}) =>
           /\ e.err = "nil"
           /\ \E p \in PostsWithID(e.before, e.req.id) :
                /\ e.post.id = p.id /\ e.post.title = p.title
                /\ e.post.content = p.content /\ e.post.user_id = p.user_id
           /\ e.post.category_ids = CategoryIDsOfPost(e.before, e.req.id)
           /\ e.post.category_names = <<>>

\* the names of a post with two categories could not be read: the post came
\* back with both ids and without names
C35_Witness ==
  \E e \in Rows(lastC) :
    /\ e.op = "getpost" /\ e.req.fault = "names" /\ e.err = "nil"
    /\ Len(e.post.category_ids) = 2
    /\ GetCategoryNamesByIDs(e.before, e.post.category_ids) # <<>>
    /\ e.post.category_names = <<>>

\* C37: a LoginUser call answered with another status than 200 leaves the
\* sessions table as it was before the call.
C37_FailedLoginKeepsSessions ==
  \A e \in Rows(lastAuth) :
    (e.op = "login" /\ e.status # 200) => sessions = e.before

(***************************************************************************)
(* What a ToggleLike call leaves alone.                                    *)
(***************************************************************************)
\* the rows of l for user u on the target ta, in table order
RowsOfPair(l, u, ta) ==
  SelectSeq(l, LAMBDA r : r.user_id = u /\ r.post_id = ta[1] /\ r.comment_id = ta[2])

\* C38: a ToggleLike call of user u on a target leaves the rows, and so the
\* reaction, of every other pair of a user and a target as they were: those
\* of other users on the target, of u on other targets, and of the comment
\* with the post's number (and the post with the comment's); and
\* CountLikesAndDislikes of every other target returns what it returned
\* before.
C38_ToggleChangesOnlyItsPair ==
  \A e \in Rows(last) :
    /\ \A u \in UserIDs, ta \in Targets :
         <<u, ta[1], ta[2]>> # <<e.user, e.post, e.comment>> =>
           /\ RowsOfPair(likes, u, ta) = RowsOfPair(e.before, u, ta)
           /\ PairState(likes, u, ta[1], ta[2]) = PairState(e.before, u, ta[1], ta[2])
    /\ \A ta \in Targets :
         <<ta[1], ta[2]>> # <<e.post, e.comment>> =>
           CountLikesAndDislikes(likes, ta[1], ta[2])
             = CountLikesAndDislikes(e.before, ta[1], ta[2])

\* u1 disliked post 1 while she likes comment 1 and u2 likes post 1
C38_Witness ==
  \E e \in Rows(last) :
    /\ e.err = "nil" /\ e.user = "u1" /\ e.post = {1} /\ e.comment = {}
    /\ PairState(e.before, "u1", {1}, {}) = "NoReaction"
    /\ PairState(likes, "u1", {1}, {}) = "Disliked"
    /\ PairState(likes, "u1", {}, {1}) = "Liked"
    /\ PairState(likes, "u2", {1}, {}) = "Liked"

(***************************************************************************)
(* Whose session a token is.                                               *)
(***************************************************************************)
\* the sessions rows with the given id
SessionsWithID(ss, t) == {r \in ss : r.id = t}

\* the user whose identifier and password the login request carries
Authenticated(us, r, u) ==
  /\ IF r.email # "" THEN u.email = r.email ELSE u.username = r.username
  /\ CheckPasswordHash(r.password, u.password_hash)

\* C39: in every reachable state a session id names at most one row and the
\* row's user_id is the id of a user; a row comes into the table only by a
\* login answered 200, under an id no row had, with the id of the user whose
\* identifier and password the request carried, and GetUserIDFromSession
\* resolves the cookie to that user; no call changes a row; a login removes
\* rows of its own user only and a logout only the row its cookie names.
C39_TokenResolvesToItsUser ==
  /\ \A r \in sessions :
       /\ Cardinality(SessionsWithID(sessions, r.id)) = 1
       /\ \E u \in users : u.id = r.user_id
       /\ GetUserIDFromSession(sessions, r.id) = r.user_id
  /\ \A e \in Rows(lastAuth) :
       /\ e.op # "login" \/ e.status # 200 => sessions \subseteq e.before
       /\ (e.op = "login" /\ e.status = 200) =>
            /\ \E u \in users : u.id = e.user /\ Authenticated(users, e.req, u)
            /\ \A t \in e.cookie :
                 /\ SessionsWithID(e.before, t) = {}
                 /\ GetUserIDFromSession(sessions, t) = e.user
                 /\ sessions \ SessionsWithID(sessions, t) \subseteq e.before
       /\ e.op = "login" =>
            \A r \in e.before : r.user_id # e.user => r \in sessions
       /\ e.op = "logout" =>
            \A r \in e.before : r.id \notin e.cookie => r \in sessions

\* bob logged in while alice had a session: his token resolves to him and
\* hers still to her
C39_Witness ==
  \E e \in Rows(lastAuth) :
    /\ e.op = "login" /\ e.status = 200 /\ e.user = "u2"
    /\ \E r \in e.before : r.user_id = "u1" /\ GetUserIDFromSession(sessions, r.id) = "u1"
    /\ \A t \in e.cookie : GetUserIDFromSession(sessions, t) = "u2"

(***************************************************************************)
(* The place of a post in the list of liked posts after its reaction was   *)
(* switched back or taken back and given again.                            *)
(***************************************************************************)
\* the list of user u was read right after two successful ToggleLike calls
\* of u on one post, the first of type t1 on a post u liked, the second a
\* like
ReadAfter(e, t1) ==
  /\ e.op = "liked" /\ e.err = "nil"
  /\ \E f \in Rows(last) :
       /\ f.user = e.req.user /\ f.err = "nil" /\ f.type = "like"
       /\ f.post # {} /\ f.prev # <<>>
       /\ f.prev[1].type = t1
       /\ PairState(f.prev[1].before, f.user, f.post, {}) = "Liked"

\* the likes table before the first of the two calls
LikesBeforeBoth == last[1].prev[1].before

\* the post the two calls were about
PostOfBoth == CHOOSE id \in last[1].post : TRUE

\* C40: when u switches a liked post to dislike and back to like, the likes
\* row keeps its created_at and every page of GetPostsLikedByUser(u) lists
\* the posts it would have listed before the two calls; when u takes the
\* like back and likes the post again, the row is a new one, the last of the
\* table with the newest created_at, and the post is listed before every
\* post whose reaction was created earlier.
C40_SwitchKeepsPlaceRelikeMoves ==
  \A e \in Rows(lastC) :
    /\ ReadAfter(e, "dislike") =>
         /\ LikedAt(e.likesBefore, e.req.user, PostOfBoth)
              = LikedAt(LikesBeforeBoth, e.req.user, PostOfBoth)
         /\ IDs(e.posts)
              = IDs(GetPostsLikedByUserResult(e.before, users, LikesBeforeBoth, e.req.user,
                                              e.req.page, e.req.limit, e.req.path,
                                              "none").posts)
    /\ ReadAfter(e, "like") =>
         LET l == e.likesBefore
             all == IDs(LikedPagesUpTo(e.before, l, e.req.user, Len(e.before.posts) + 1,
                                       e.req.limit, e.req.path))
         IN  /\ l[Len(l)].user_id = e.req.user /\ l[Len(l)].post_id = {PostOfBoth}
             /\ \A r \in Rows(l) : r.created_at <= l[Len(l)].created_at
             /\ Occurrences(all, PostOfBoth) = 1
             /\ \A i, j \in DOMAIN all :
                  ( /\ all[i] = PostOfBoth /\ all[j] # PostOfBoth
                    /\ LikedAt(l, e.req.user, all[j]) < LikedAt(l, e.req.user, PostOfBoth) )
                  => i < j

\* u1 liked post 1, later post 2, then took the like of post 1 back and
\* liked it again later still: post 1, listed last before, is listed first
C40_Witness ==
  \E e \in Rows(lastC) :
    /\ ReadAfter(e, "like") /\ e.req.page = 1 /\ e.req.limit = 2
    /\ IDs(GetPostsLikedByUserResult(e.before, users, LikesBeforeBoth, e.req.user,
                                     1, 2, e.req.path, "none").posts) = <<2, 1>>
    /\ IDs(e.posts) = <<1, 2>>

====
